---- MODULE Spec2Model ----
(***************************************************************************)
(* OpenAudit-AI: the progress-tracked analysis pipeline.                   *)
(*                                                                         *)
(*  - the progress hook (src/src/hooks/useProgressTracker.ts): the stage   *)
(*    list, overall progress, start time, time estimate and the delayed    *)
(*    callbacks (setTimeout) it schedules;                                 *)
(*  - the four analysis handlers of App (src/unnamed/part_000);            *)
(*  - the remote plagiarism client EnhancedGeminiDetector                  *)
(*    (src/src/utils/geminiPlagiarismDetector.ts).                         *)
(*                                                                         *)
(* React state updates are applied in the order the code issues them; one  *)
(* action is one synchronous block of a handler (from one await to the     *)
(* next) or one timer callback.  Times are in milliseconds.  Confidence    *)
(* and similarity values are held in tenths (0.4 is 4, 1.5 is 15).         *)
(***************************************************************************)
EXTENDS Integers, Sequences, FiniteSets, TLC

VARIABLES
    isVisible,               \* useProgressTracker: isVisible
    currentStep,             \* useProgressTracker: currentStep
    steps,                   \* useProgressTracker: steps
    overallProgress,         \* useProgressTracker: overallProgress, a rational
    startTime,               \* useProgressTracker: startTime (Null or ms)
    estimatedTimeRemaining,  \* useProgressTracker: estimatedTimeRemaining
    timers,                  \* pending setTimeout callbacks, in creation order
    now,                     \* Date.now()
    isProcessing,            \* App: isProcessing
    run,                     \* the handler invocation in progress
    runCount,                \* number of handler invocations started so far
    published,               \* App: the published result state
    client,                  \* EnhancedGeminiDetector call in progress
    env,                     \* backend connected, the Gemini API key and whether it is usable
    runLimit,                \* handler invocations allowed in this behaviour
    lastOp                   \* the operation performed by the last step

trackerVars == <<isVisible, currentStep, steps, overallProgress, startTime,
                 estimatedTimeRemaining>>
vars == <<isVisible, currentStep, steps, overallProgress, startTime,
          estimatedTimeRemaining, timers, now, isProcessing, run, runCount,
          published, client, env, runLimit, lastOp>>

----------------------------------------------------------------------------
(* Bounds of the model.                                                    *)

\* the clock starts here and the model stops advancing it at MaxTime
Epoch == 1000
MaxTime == 4100
\* the granularity with which the clock advances between timer deadlines
TickMs == 1000
\* handler invocations per behaviour, and per behaviour in which a handler
\* may start while callbacks of an earlier one are pending
MaxRuns == 1
MaxOverlapRuns == 2
\* calls of the detector per behaviour of the client-level specification
MaxClientCalls == 2
\* calls of the hook's operations per behaviour of the hook-level specification
MaxCalls == 3

----------------------------------------------------------------------------
(* JavaScript values.                                                      *)

\* null for number | null state
Null == -1
\* an absent optional string (details?: string left undefined)
Undefined == "undefined"

\* a truthy number | null: null and 0 are falsy
Truthy(x) == x # Null /\ x # 0

Min(a, b) == IF a < b THEN a ELSE b
Max(a, b) == IF a > b THEN a ELSE b

\* rationals num/den with den >= 0; 0/0 is NaN
Rat(n, d) == [num |-> n, den |-> d]
IsNaN(r) == r.den = 0
RatEq(r, s) == \/ IsNaN(r) /\ IsNaN(s)
               \/ ~IsNaN(r) /\ ~IsNaN(s) /\ r.num * s.den = s.num * r.den
\* r > k for an integer k (false for NaN, as in JavaScript)
RatGt(r, k) == ~IsNaN(r) /\ r.num > k * r.den
RatGe(r, k) == ~IsNaN(r) /\ r.num >= k * r.den
RatLe(r, k) == ~IsNaN(r) /\ r.num <= k * r.den

\* Math.ceil(a / b) and Math.round(a / b) for b > 0
CeilDiv(a, b) == -((-a) \div b)
RoundDiv(a, b) == (2 * a + b) \div (2 * b)

RECURSIVE SumProgress(_)
SumProgress(ss) == IF ss = <<>> THEN 0 ELSE Head(ss).progress + SumProgress(Tail(ss))

\* findIndex: the first index with the id, 0 when there is none
RECURSIVE FindIndexFrom(_, _, _)
FindIndexFrom(ss, id, i) ==
    IF i > Len(ss) THEN 0
    ELSE IF ss[i].id = id THEN i ELSE FindIndexFrom(ss, id, i + 1)
FindIndex(ss, id) == FindIndexFrom(ss, id, 1)

----------------------------------------------------------------------------
(* Strings are sequences of one-character strings.  Positions handed to    *)
(* and returned by the JavaScript operations are 0-based, as in the code.  *)

Whitespace == {" ", "\n", "\t"}
Terminators == {".", "!", "?"}

SubSeq1(s, a, b) == IF a > b THEN <<>> ELSE SubSeq(s, a, b)

\* String.prototype.trim
RECURSIVE TrimLeft(_)
TrimLeft(s) == IF s # <<>> /\ Head(s) \in Whitespace THEN TrimLeft(Tail(s)) ELSE s
RECURSIVE TrimRight(_)
TrimRight(s) ==
    IF s # <<>> /\ s[Len(s)] \in Whitespace THEN TrimRight(SubSeq1(s, 1, Len(s) - 1)) ELSE s
Trim(s) == TrimRight(TrimLeft(s))

\* does pat occur in s at 1-based position p
MatchesAt(s, pat, p) ==
    /\ p >= 1
    /\ p + Len(pat) - 1 <= Len(s)
    /\ \A k \in 1..Len(pat) : s[p + k - 1] = pat[k]

\* String.prototype.indexOf(pat, from): 0-based, -1 when absent
MinOf(S) == CHOOSE x \in S : \A y \in S : x <= y
MaxOf(S) == CHOOSE x \in S : \A y \in S : x >= y
\* the least and the greatest of a set of 1-based positions, 0 when it is empty
FirstOf(S) == IF S = {} THEN 0 ELSE MinOf(S)
LastOf(S) == IF S = {} THEN 0 ELSE MaxOf(S)
Occurrences(s, pat, p) == {q \in p..Len(s) : MatchesAt(s, pat, q)}
indexOf(s, pat, from) == FirstOf(Occurrences(s, pat, Max(from, 0) + 1)) - 1

Includes(s, pat) == indexOf(s, pat, 0) # -1

LowerOf(ch) ==
    CASE ch = "A" -> "a" [] ch = "B" -> "b" [] ch = "C" -> "c" [] ch = "D" -> "d"
      [] ch = "E" -> "e" [] ch = "F" -> "f" [] ch = "G" -> "g" [] ch = "H" -> "h"
      [] ch = "I" -> "i" [] ch = "J" -> "j" [] ch = "K" -> "k" [] ch = "L" -> "l"
      [] ch = "M" -> "m" [] ch = "N" -> "n" [] ch = "O" -> "o" [] ch = "P" -> "p"
      [] ch = "Q" -> "q" [] ch = "R" -> "r" [] ch = "S" -> "s" [] ch = "T" -> "t"
      [] ch = "U" -> "u" [] ch = "V" -> "v" [] ch = "W" -> "w" [] ch = "X" -> "x"
      [] ch = "Y" -> "y" [] ch = "Z" -> "z" [] OTHER -> ch
toLowerCase(s) == [k \in 1..Len(s) |-> LowerOf(s[k])]

\* String.prototype.split(/[.!?]+/): the pieces between maximal runs of
\* terminators, empty pieces at the ends included
RECURSIVE SplitFrom(_, _)
SplitFrom(s, p) ==
    LET terms == {q \in p..Len(s) : s[q] \in Terminators}
        first == MinOf(terms)
        after == MinOf({q \in first..(Len(s) + 1) : q > Len(s) \/ s[q] \notin Terminators})
    IN IF terms = {} THEN <<SubSeq1(s, p, Len(s))>>
       ELSE <<SubSeq1(s, p, first - 1)>> \o SplitFrom(s, after)
SplitTerminators(s) == SplitFrom(s, 1)

\* text.split(/[.!?]+/).map(s => s.trim()).filter(s => s.length > minLen)
SegmentText(text, minLen) ==
    SelectSeq([k \in 1..Len(SplitTerminators(text)) |-> Trim(SplitTerminators(text)[k])],
              LAMBDA piece : Len(piece) > minLen)

\* text.split(/\s+/).filter(word => word.length > 0).length
WordCount(s) ==
    Cardinality({p \in 1..Len(s) : s[p] \notin Whitespace /\ (p = 1 \/ s[p - 1] \in Whitespace)})

----------------------------------------------------------------------------
(* extractJsonFromResponse: the four regular-expression tiers.            *)

\* the backquote character (written "BQ": the lexer of TLA+ rejects it in a string)
Backquote == "BQ"
Fence == <<Backquote, Backquote, Backquote>>

\* the position after a run of whitespace starting at p
RECURSIVE SkipWs(_, _)
SkipWs(s, p) == IF p <= Len(s) /\ s[p] \in Whitespace THEN SkipWs(s, p + 1) ELSE p

\* what must follow the closing brace of a candidate, by pattern
CloseOk(s, r, pattern) ==
    CASE pattern = "fenced" -> MatchesAt(s, Fence, SkipWs(s, r + 1))
      [] pattern = "backquote" -> MatchesAt(s, <<Backquote>>, r + 1)
      [] OTHER -> TRUE

\* the smallest r >= p with s[r] = "}" after which the pattern can finish,
\* 0 when there is none (the lazy quantifier of [\s\S]*?\})
LazyClose(s, p, pattern) ==
    FirstOf({r \in p..Len(s) : s[r] = "}" /\ CloseOk(s, r, pattern)})

\* the pattern  fence (?:json)? \s* ( \{ [\s\S]*? \} ) \s* fence  with flag i,
\* tried at position p: the capture as <<first, last>>, <<0, 0>> when the
\* pattern does not match at p
Capture(open, close) == IF close = 0 THEN <<0, 0>> ELSE <<open, close>>

\* the capture group ( \{ [\s\S]*? \} ) tried at position open
CaptureAt(s, open, pattern) ==
    IF open > Len(s) \/ s[open] # "{" THEN <<0, 0>>
    ELSE Capture(open, LazyClose(s, open + 1, pattern))

\* the position after the optional json that follows a fence
AfterJson(s, afterFence) ==
    IF MatchesAt(toLowerCase(s), <<"j", "s", "o", "n">>, afterFence)
    THEN afterFence + 4 ELSE afterFence

FencedAt(s, p) ==
    IF ~MatchesAt(s, Fence, p) THEN <<0, 0>>
    ELSE CaptureAt(s, SkipWs(s, AfterJson(s, p + 3)), "fenced")

\* the pattern  backquote ( \{ [\s\S]*? \} ) backquote  tried at position p
BacktickAt(s, p) ==
    IF ~MatchesAt(s, <<Backquote>>, p) THEN <<0, 0>>
    ELSE CaptureAt(s, p + 1, "backquote")

PatternAt(s, p, pattern) == IF pattern = "fenced" THEN FencedAt(s, p) ELSE BacktickAt(s, p)

\* String.prototype.match without the g flag: the leftmost match
FirstMatch(s, pattern) ==
    PatternAt(s, FirstOf({p \in 1..Len(s) : PatternAt(s, p, pattern) # <<0, 0>>}), pattern)

\* responseText.match(/\{[\s\S]*?\}/g): the successive non-overlapping matches
RECURSIVE BraceMatches(_, _)
BraceMatches(s, p) ==
    LET opens == {q \in p..Len(s) : s[q] = "{"}
        open == MinOf(opens)
        close == LazyClose(s, open + 1, "brace")
    IN IF opens = {} \/ close = 0 THEN <<>>
       ELSE <<SubSeq(s, open, close)>> \o BraceMatches(s, close + 1)

\* jsonMatches.reduce((longest, current) =>
\*     current.length > longest.length ? current : longest)
RECURSIVE LongestOf(_, _)
LongestOf(longest, rest) ==
    IF rest = <<>> THEN longest
    ELSE LongestOf(IF Len(Head(rest)) > Len(longest) THEN Head(rest) ELSE longest, Tail(rest))

\* String.prototype.lastIndexOf(ch): 0-based, -1 when absent
lastIndexOf(s, ch) == LastOf({p \in 1..Len(s) : s[p] = ch}) - 1

\* null is [tier |-> 0]; otherwise the tier that produced the candidate and
\* the candidate
NoJson == [tier |-> 0, json |-> <<>>]

\* the tiers with the longest brace-delimited match tried before the
\* backquote span
MutExtractTiers(responseText, fenced, backtick, jsonMatches, firstBrace, lastBrace) ==
       IF fenced # <<0, 0>>
       THEN [tier |-> 1, json |-> Trim(SubSeq(responseText, fenced[1], fenced[2]))]
       ELSE IF Len(jsonMatches) > 0
       THEN [tier |-> 3, json |-> Trim(LongestOf(Head(jsonMatches), Tail(jsonMatches)))]
       ELSE IF backtick # <<0, 0>>
       THEN [tier |-> 2, json |-> Trim(SubSeq(responseText, backtick[1], backtick[2]))]
       ELSE IF firstBrace # -1 /\ lastBrace # -1 /\ lastBrace > firstBrace
       THEN [tier |-> 4, json |-> Trim(SubSeq(responseText, firstBrace + 1, lastBrace + 1))]
       ELSE NoJson

\* the tiers in order, given what each of the patterns found
ExtractTiers(responseText, fenced, backtick, jsonMatches, firstBrace, lastBrace) ==
       IF fenced # <<0, 0>>
       THEN [tier |-> 1, json |-> Trim(SubSeq(responseText, fenced[1], fenced[2]))]
       ELSE IF backtick # <<0, 0>>
       THEN [tier |-> 2, json |-> Trim(SubSeq(responseText, backtick[1], backtick[2]))]
       ELSE IF Len(jsonMatches) > 0
       THEN [tier |-> 3, json |-> Trim(LongestOf(Head(jsonMatches), Tail(jsonMatches)))]
       ELSE IF firstBrace # -1 /\ lastBrace # -1 /\ lastBrace > firstBrace
       THEN [tier |-> 4, json |-> Trim(SubSeq(responseText, firstBrace + 1, lastBrace + 1))]
       ELSE NoJson

extractJsonFromResponse(responseText) ==
    ExtractTiers(responseText,
                 FirstMatch(responseText, "fenced"),
                 FirstMatch(responseText, "backquote"),
                 BraceMatches(responseText, 1),
                 indexOf(responseText, <<"{">>, 0),
                 lastIndexOf(responseText, "}"))

----------------------------------------------------------------------------
(* JavaScript values as JSON.parse yields them and as the client computes  *)
(* with them.  Numbers are in tenths.                                      *)

JUndefined == [k |-> "undefined", v |-> 0]
JNull == [k |-> "null", v |-> 0]
JNaN == [k |-> "NaN", v |-> 0]
JNum(n) == [k |-> "number", v |-> n]
JBool(b) == [k |-> "boolean", v |-> IF b THEN 1 ELSE 0]
JStr(chars) == [k |-> "string", v |-> 0, s |-> chars]
JArr(items) == [k |-> "array", v |-> 0, items |-> items]
JObj(fields) == [k |-> "object", v |-> 0, fields |-> fields]
EmptyFields == [f \in {} |-> JUndefined]

Falsy(x) ==
    \/ x.k \in {"undefined", "null", "NaN"}
    \/ x.k \in {"number", "boolean"} /\ x.v = 0
    \/ x.k = "string" /\ x.s = <<>>

\* x || d
OrElse(x, d) == IF Falsy(x) THEN d ELSE x

\* property access x.f: undefined when x has no such property
Get(x, f) == IF x.k = "object" /\ f \in DOMAIN x.fields THEN x.fields[f] ELSE JUndefined

\* ToNumber; the non-empty strings of the model are not numeric
ToNumber(x) ==
    CASE x.k = "number" -> x
      [] x.k = "boolean" -> JNum(10 * x.v)
      [] x.k = "null" -> JNum(0)
      [] x.k = "string" /\ x.s = <<>> -> JNum(0)
      [] OTHER -> JNaN

MathMax(a, b) ==
    IF ToNumber(a).k = "NaN" \/ ToNumber(b).k = "NaN" THEN JNaN
    ELSE JNum(Max(ToNumber(a).v, ToNumber(b).v))
MathMin(a, b) ==
    IF ToNumber(a).k = "NaN" \/ ToNumber(b).k = "NaN" THEN JNaN
    ELSE JNum(Min(ToNumber(a).v, ToNumber(b).v))

\* Math.min(Math.max(x || 0, 0), 1)
ClampUnit(x) == MathMin(MathMax(OrElse(x, JNum(0)), JNum(0)), JNum(10))

----------------------------------------------------------------------------
(* Texts, replies and string literals.                                     *)

\* the input texts
\* Hello world. Hello world. Short.
TxtDup == <<"H", "e", "l", "l", "o", " ", "w", "o", "r", "l", "d", ".", " ",
    "H", "e", "l", "l", "o", " ", "w", "o", "r", "l", "d", ".", " ", "S",
    "h", "o", "r", "t", ".">>
\* Studies have shown growth. Nothing special here at all!
TxtTwo == <<"S", "t", "u", "d", "i", "e", "s", " ", "h", "a", "v", "e", " ",
    "s", "h", "o", "w", "n", " ", "g", "r", "o", "w", "t", "h", ".", " ",
    "N", "o", "t", "h", "i", "n", "g", " ", "s", "p", "e", "c", "i", "a",
    "l", " ", "h", "e", "r", "e", " ", "a", "t", " ", "a", "l", "l", "!">>
\* Moreover it is plainly true.
TxtOne == <<"M", "o", "r", "e", "o", "v", "e", "r", " ", "i", "t", " ", "i",
    "s", " ", "p", "l", "a", "i", "n", "l", "y", " ", "t", "r", "u", "e", ".">>

\* a text without a sentence of more than ten characters
\* 'Hi there.'
TxtShort == <<"H", "i", " ", "t", "h", "e", "r", "e", ".">>

\* one token that holds a terminator
\* Plagiarism-checker.Deep-research-tool
TxtDotted == <<"P", "l", "a", "g", "i", "a", "r", "i", "s", "m", "-", "c", "h", "e",
    "c", "k", "e", "r", ".", "D", "e", "e", "p", "-", "r", "e", "s", "e",
    "a", "r", "c", "h", "-", "t", "o", "o", "l">>

\* It was a dark night. It was a dark night!
TxtRepeat == <<"I", "t", " ", "w", "a", "s", " ", "a", " ", "d", "a", "r",
    "k", " ", "n", "i", "g", "h", "t", ".", " ", "I", "t", " ", "w", "a",
    "s", " ", "a", " ", "d", "a", "r", "k", " ", "n", "i", "g", "h", "t", "!">>
\* The quick brown fox jumps over the lazy dog. To be or not very good! Short.
TxtFox == <<"T", "h", "e", " ", "q", "u", "i", "c", "k", " ", "b", "r", "o",
    "w", "n", " ", "f", "o", "x", " ", "j", "u", "m", "p", "s", " ", "o",
    "v", "e", "r", " ", "t", "h", "e", " ", "l", "a", "z", "y", " ", "d",
    "o", "g", ".", " ", "T", "o", " ", "b", "e", " ", "o", "r", " ", "n",
    "o", "t", " ", "v", "e", "r", "y", " ", "g", "o", "o", "d", "!", " ",
    "S", "h", "o", "r", "t", ".">>

\* replies of the remote model to a sentence prompt
Reply == [
    \* {"isPlagiarized":true,"confidence":1.5}
    high |-> <<"{", "\"", "i", "s", "P", "l", "a", "g", "i", "a", "r", "i",
        "z", "e", "d", "\"", ":", "t", "r", "u", "e", ",", "\"", "c", "o", "n",
        "f", "i", "d", "e", "n", "c", "e", "\"", ":", "1", ".", "5", "}">>,
    \* {"confidence":-0.2}
    neg |-> <<"{", "\"", "c", "o", "n", "f", "i", "d", "e", "n", "c", "e",
        "\"", ":", "-", "0", ".", "2", "}">>,
    \* {"isPlagiarized":true}
    noConf |-> <<"{", "\"", "i", "s", "P", "l", "a", "g", "i", "a", "r", "i",
        "z", "e", "d", "\"", ":", "t", "r", "u", "e", "}">>,
    \* {"isPlagiarized":true,"confidence":"high"}
    strConf |-> <<"{", "\"", "i", "s", "P", "l", "a", "g", "i", "a", "r", "i",
        "z", "e", "d", "\"", ":", "t", "r", "u", "e", ",", "\"", "c", "o", "n",
        "f", "i", "d", "e", "n", "c", "e", "\"", ":", "\"", "h", "i", "g", "h",
        "\"", "}">>,
    \*  BQ  BQ  BQ json\n{"confidence":0.8,"sources":[{"similarity":1.5},{"similarity":-0.2},{"title":"T"}]}\n BQ  BQ  BQ 
    fenced |-> <<Backquote, Backquote, Backquote, "j", "s", "o", "n", "\n",
        "{", "\"", "c", "o", "n", "f", "i", "d", "e", "n", "c", "e", "\"", ":",
        "0", ".", "8", ",", "\"", "s", "o", "u", "r", "c", "e", "s", "\"", ":",
        "[", "{", "\"", "s", "i", "m", "i", "l", "a", "r", "i", "t", "y", "\"",
        ":", "1", ".", "5", "}", ",", "{", "\"", "s", "i", "m", "i", "l", "a",
        "r", "i", "t", "y", "\"", ":", "-", "0", ".", "2", "}", ",", "{", "\"",
        "t", "i", "t", "l", "e", "\"", ":", "\"", "T", "\"", "}", "]", "}", "\n",
        Backquote, Backquote, Backquote>>,
    \* {"confidence":0.8,"sources":[{"similarity":1.5},{"similarity":-0.2},{"title":"T"}]}
    nested |-> <<"{", "\"", "c", "o", "n", "f", "i", "d", "e", "n", "c", "e",
        "\"", ":", "0", ".", "8", ",", "\"", "s", "o", "u", "r", "c", "e", "s",
        "\"", ":", "[", "{", "\"", "s", "i", "m", "i", "l", "a", "r", "i", "t",
        "y", "\"", ":", "1", ".", "5", "}", ",", "{", "\"", "s", "i", "m", "i",
        "l", "a", "r", "i", "t", "y", "\"", ":", "-", "0", ".", "2", "}", ",",
        "{", "\"", "t", "i", "t", "l", "e", "\"", ":", "\"", "T", "\"", "}", "]",
        "}">>,
    \* It looks copied.
    prose |-> <<"I", "t", " ", "l", "o", "o", "k", "s", " ", "c", "o", "p",
        "i", "e", "d", ".">>,
    \* Looks fine.
    clean |-> <<"L", "o", "o", "k", "s", " ", "f", "i", "n", "e", ".">>,
    \* {"sources":"none"}
    badSources |-> <<"{", "\"", "s", "o", "u", "r", "c", "e", "s", "\"", ":",
        "\"", "n", "o", "n", "e", "\"", "}">>,
    \* see {"isPlagiarized":true} or  BQ {"confidence":-0.2} BQ 
    ticked |-> <<"s", "e", "e", " ", "{", "\"", "i", "s", "P", "l", "a", "g", "i",
        "a", "r", "i", "z", "e", "d", "\"", ":", "t", "r", "u", "e",
        "}", " ", "o", "r", " ", Backquote, "{", "\"", "c", "o", "n",
        "f", "i", "d", "e", "n", "c", "e", "\"", ":", "-", "0", ".",
        "2", "}", Backquote>>,
    \* } then {
    closeOpen |-> <<"}", " ", "t", "h", "e", "n", " ", "{">>
    ]

\* replies of the remote model to the research prompt
Res == [
    \* {"overallAssessment":"ok","riskLevel":"high","recommendations":["r"],"potentialSources":[]}
    flat |-> <<"{", "\"", "o", "v", "e", "r", "a", "l", "l", "A", "s", "s",
        "e", "s", "s", "m", "e", "n", "t", "\"", ":", "\"", "o", "k", "\"", ",",
        "\"", "r", "i", "s", "k", "L", "e", "v", "e", "l", "\"", ":", "\"", "h",
        "i", "g", "h", "\"", ",", "\"", "r", "e", "c", "o", "m", "m", "e", "n",
        "d", "a", "t", "i", "o", "n", "s", "\"", ":", "[", "\"", "r", "\"", "]",
        ",", "\"", "p", "o", "t", "e", "n", "t", "i", "a", "l", "S", "o", "u",
        "r", "c", "e", "s", "\"", ":", "[", "]", "}">>,
    \*  BQ  BQ  BQ json\n{"overallAssessment":"ok","riskLevel":"low","recommendations":["r"],"potentialSources":[{"similarity":1.5},{"similarity":-0.2}]}\n BQ  BQ  BQ 
    fenced |-> <<Backquote, Backquote, Backquote, "j", "s", "o", "n", "\n",
        "{", "\"", "o", "v", "e", "r", "a", "l", "l", "A", "s", "s", "e", "s",
        "s", "m", "e", "n", "t", "\"", ":", "\"", "o", "k", "\"", ",", "\"", "r",
        "i", "s", "k", "L", "e", "v", "e", "l", "\"", ":", "\"", "l", "o", "w",
        "\"", ",", "\"", "r", "e", "c", "o", "m", "m", "e", "n", "d", "a", "t",
        "i", "o", "n", "s", "\"", ":", "[", "\"", "r", "\"", "]", ",", "\"", "p",
        "o", "t", "e", "n", "t", "i", "a", "l", "S", "o", "u", "r", "c", "e", "s",
        "\"", ":", "[", "{", "\"", "s", "i", "m", "i", "l", "a", "r", "i", "t",
        "y", "\"", ":", "1", ".", "5", "}", ",", "{", "\"", "s", "i", "m", "i",
        "l", "a", "r", "i", "t", "y", "\"", ":", "-", "0", ".", "2", "}", "]",
        "}", "\n", Backquote, Backquote, Backquote>>,
    \* {"overallAssessment":"ok","riskLevel":"high","recommendations":["r"],"potentialSources":[{"similarity":0.5}]}
    nested |-> <<"{", "\"", "o", "v", "e", "r", "a", "l", "l", "A", "s", "s",
        "e", "s", "s", "m", "e", "n", "t", "\"", ":", "\"", "o", "k", "\"", ",",
        "\"", "r", "i", "s", "k", "L", "e", "v", "e", "l", "\"", ":", "\"", "h",
        "i", "g", "h", "\"", ",", "\"", "r", "e", "c", "o", "m", "m", "e", "n",
        "d", "a", "t", "i", "o", "n", "s", "\"", ":", "[", "\"", "r", "\"", "]",
        ",", "\"", "p", "o", "t", "e", "n", "t", "i", "a", "l", "S", "o", "u",
        "r", "c", "e", "s", "\"", ":", "[", "{", "\"", "s", "i", "m", "i", "l",
        "a", "r", "i", "t", "y", "\"", ":", "0", ".", "5", "}", "]", "}">>,
    \* No structured answer.
    prose |-> <<"N", "o", " ", "s", "t", "r", "u", "c", "t", "u", "r", "e",
        "d", " ", "a", "n", "s", "w", "e", "r", ".">>,
    \* {"riskLevel":"severe"}
    severe |-> <<"{", "\"", "r", "i", "s", "k", "L", "e", "v", "e", "l", "\"",
        ":", "\"", "s", "e", "v", "e", "r", "e", "\"", "}">>,
    \* {not json}
    bad |-> <<"{", "n", "o", "t", " ", "j", "s", "o", "n", "}">>
    ]

\* string literals of the code and of the replies
Str == [
    \* 'academic-source.edu'
    academicSourceEdu |-> <<"a", "c", "a", "d", "e", "m", "i", "c", "-", "s",
        "o", "u", "r", "c", "e", ".", "e", "d", "u">>,
    \* 'Academic Source Pattern Detected'
    academicSourcePatternDetected |-> <<"A", "c", "a", "d", "e", "m", "i",
        "c", " ", "S", "o", "u", "r", "c", "e", " ", "P", "a", "t", "t", "e", "r",
        "n", " ", "D", "e", "t", "e", "c", "t", "e", "d">>,
    \* 'Analysis completed'
    analysisCompleted |-> <<"A", "n", "a", "l", "y", "s", "i", "s", " ", "c",
        "o", "m", "p", "l", "e", "t", "e", "d">>,
    \* 'Check for proper citations'
    checkForProperCitations |-> <<"C", "h", "e", "c", "k", " ", "f", "o", "r",
        " ", "p", "r", "o", "p", "e", "r", " ", "c", "i", "t", "a", "t", "i", "o",
        "n", "s">>,
    \* 'copied'
    copied |-> <<"c", "o", "p", "i", "e", "d">>,
    \* ''
    empty |-> <<>>,
    \* '#'
    hash |-> <<"#">>,
    \* 'high'
    high |-> <<"h", "i", "g", "h">>,
    \* 'low'
    low |-> <<"l", "o", "w">>,
    \* 'Manual review recommended'
    manualReviewRecommended |-> <<"M", "a", "n", "u", "a", "l", " ", "r", "e",
        "v", "i", "e", "w", " ", "r", "e", "c", "o", "m", "m", "e", "n", "d", "e",
        "d">>,
    \* 'medium'
    medium |-> <<"m", "e", "d", "i", "u", "m">>,
    \* 'none'
    none |-> <<"n", "o", "n", "e">>,
    \* 'ok'
    ok |-> <<"o", "k">>,
    \* 'plagiarized'
    plagiarized |-> <<"p", "l", "a", "g", "i", "a", "r", "i", "z", "e", "d">>,
    \* 'Potential Source'
    potentialSource |-> <<"P", "o", "t", "e", "n", "t", "i", "a", "l", " ",
        "S", "o", "u", "r", "c", "e">>,
    \* 'Potential Source Detected'
    potentialSourceDetected |-> <<"P", "o", "t", "e", "n", "t", "i", "a", "l",
        " ", "S", "o", "u", "r", "c", "e", " ", "D", "e", "t", "e", "c", "t", "e",
        "d">>,
    \* 'r'
    r |-> <<"r">>,
    \* 'research-database.com'
    researchDatabaseCom |-> <<"r", "e", "s", "e", "a", "r", "c", "h", "-",
        "d", "a", "t", "a", "b", "a", "s", "e", ".", "c", "o", "m">>,
    \* 'Review content for originality'
    reviewContentForOriginality |-> <<"R", "e", "v", "i", "e", "w", " ", "c",
        "o", "n", "t", "e", "n", "t", " ", "f", "o", "r", " ", "o", "r", "i", "g",
        "i", "n", "a", "l", "i", "t", "y">>,
    \* 'severe'
    severe |-> <<"s", "e", "v", "e", "r", "e">>,
    \* 'source'
    source |-> <<"s", "o", "u", "r", "c", "e">>,
    \* 'T'
    t |-> <<"T">>,
    \* 'Unable to complete deep analysis. Please try again.'
    unableToCompleteDeepAnalysisPleaseTryAgain |-> <<"U", "n", "a", "b", "l",
        "e", " ", "t", "o", " ", "c", "o", "m", "p", "l", "e", "t", "e", " ", "d",
        "e", "e", "p", " ", "a", "n", "a", "l", "y", "s", "i", "s", ".", " ", "P",
        "l", "e", "a", "s", "e", " ", "t", "r", "y", " ", "a", "g", "a", "i", "n",
        ".">>,
    \* 'unknown'
    unknown |-> <<"u", "n", "k", "n", "o", "w", "n">>,
    \* 'unknown.com'
    unknownCom |-> <<"u", "n", "k", "n", "o", "w", "n", ".", "c", "o", "m">>,
    \* 'Unknown Source'
    unknownSource |-> <<"U", "n", "k", "n", "o", "w", "n", " ", "S", "o", "u",
        "r", "c", "e">>
    ]

\* the JSON documents among the candidates extracted from the replies
Json == [
    \* {"isPlagiarized":true,"confidence":1.5}
    high |-> <<"{", "\"", "i", "s", "P", "l", "a", "g", "i", "a", "r", "i",
        "z", "e", "d", "\"", ":", "t", "r", "u", "e", ",", "\"", "c", "o", "n",
        "f", "i", "d", "e", "n", "c", "e", "\"", ":", "1", ".", "5", "}">>,
    \* {"confidence":-0.2}
    neg |-> <<"{", "\"", "c", "o", "n", "f", "i", "d", "e", "n", "c", "e",
        "\"", ":", "-", "0", ".", "2", "}">>,
    \* {"isPlagiarized":true}
    noConf |-> <<"{", "\"", "i", "s", "P", "l", "a", "g", "i", "a", "r", "i",
        "z", "e", "d", "\"", ":", "t", "r", "u", "e", "}">>,
    \* {"isPlagiarized":true,"confidence":"high"}
    strConf |-> <<"{", "\"", "i", "s", "P", "l", "a", "g", "i", "a", "r", "i",
        "z", "e", "d", "\"", ":", "t", "r", "u", "e", ",", "\"", "c", "o", "n",
        "f", "i", "d", "e", "n", "c", "e", "\"", ":", "\"", "h", "i", "g", "h",
        "\"", "}">>,
    \* {"confidence":0.8,"sources":[{"similarity":1.5},{"similarity":-0.2},{"title":"T"}]}
    fenced |-> <<"{", "\"", "c", "o", "n", "f", "i", "d", "e", "n", "c", "e",
        "\"", ":", "0", ".", "8", ",", "\"", "s", "o", "u", "r", "c", "e", "s",
        "\"", ":", "[", "{", "\"", "s", "i", "m", "i", "l", "a", "r", "i", "t",
        "y", "\"", ":", "1", ".", "5", "}", ",", "{", "\"", "s", "i", "m", "i",
        "l", "a", "r", "i", "t", "y", "\"", ":", "-", "0", ".", "2", "}", ",",
        "{", "\"", "t", "i", "t", "l", "e", "\"", ":", "\"", "T", "\"", "}", "]",
        "}">>,
    \* {"sources":"none"}
    badSources |-> <<"{", "\"", "s", "o", "u", "r", "c", "e", "s", "\"", ":",
        "\"", "n", "o", "n", "e", "\"", "}">>,
    \* {"overallAssessment":"ok","riskLevel":"high","recommendations":["r"],"potentialSources":[]}
    resFlat |-> <<"{", "\"", "o", "v", "e", "r", "a", "l", "l", "A", "s", "s",
        "e", "s", "s", "m", "e", "n", "t", "\"", ":", "\"", "o", "k", "\"", ",",
        "\"", "r", "i", "s", "k", "L", "e", "v", "e", "l", "\"", ":", "\"", "h",
        "i", "g", "h", "\"", ",", "\"", "r", "e", "c", "o", "m", "m", "e", "n",
        "d", "a", "t", "i", "o", "n", "s", "\"", ":", "[", "\"", "r", "\"", "]",
        ",", "\"", "p", "o", "t", "e", "n", "t", "i", "a", "l", "S", "o", "u",
        "r", "c", "e", "s", "\"", ":", "[", "]", "}">>,
    \* {"overallAssessment":"ok","riskLevel":"low","recommendations":["r"],"potentialSources":[{"similarity":1.5},{"similarity":-0.2}]}
    resFenced |-> <<"{", "\"", "o", "v", "e", "r", "a", "l", "l", "A", "s",
        "s", "e", "s", "s", "m", "e", "n", "t", "\"", ":", "\"", "o", "k", "\"",
        ",", "\"", "r", "i", "s", "k", "L", "e", "v", "e", "l", "\"", ":", "\"",
        "l", "o", "w", "\"", ",", "\"", "r", "e", "c", "o", "m", "m", "e", "n",
        "d", "a", "t", "i", "o", "n", "s", "\"", ":", "[", "\"", "r", "\"", "]",
        ",", "\"", "p", "o", "t", "e", "n", "t", "i", "a", "l", "S", "o", "u",
        "r", "c", "e", "s", "\"", ":", "[", "{", "\"", "s", "i", "m", "i", "l",
        "a", "r", "i", "t", "y", "\"", ":", "1", ".", "5", "}", ",", "{", "\"",
        "s", "i", "m", "i", "l", "a", "r", "i", "t", "y", "\"", ":", "-", "0",
        ".", "2", "}", "]", "}">>,
    \* {"riskLevel":"severe"}
    resSevere |-> <<"{", "\"", "r", "i", "s", "k", "L", "e", "v", "e", "l",
        "\"", ":", "\"", "s", "e", "v", "e", "r", "e", "\"", "}">>
    ]

\* the alternatives of the suspiciousPatterns of fallbackDetection, in order
SuspiciousPatterns == <<
    <<"a", "c", "c", "o", "r", "d", "i", "n", "g", " ", "t", "o", " ", "r", "e", "s", "e", "a", "r", "c", "h">>,
    <<"a", "c", "c", "o", "r", "d", "i", "n", "g", " ", "t", "o", " ", "s", "t", "u", "d", "i", "e", "s">>,
    <<"a", "c", "c", "o", "r", "d", "i", "n", "g", " ", "t", "o", " ", "e", "x", "p", "e", "r", "t", "s">>,
    <<"i", "t", " ", "h", "a", "s", " ", "b", "e", "e", "n", " ", "s", "h", "o", "w", "n">>,
    <<"i", "t", " ", "h", "a", "s", " ", "b", "e", "e", "n", " ", "p", "r", "o", "v", "e", "n">>,
    <<"i", "t", " ", "h", "a", "s", " ", "b", "e", "e", "n", " ", "d", "e", "m", "o", "n", "s", "t", "r", "a", "t", "e", "d">>,
    <<"r", "e", "s", "e", "a", "r", "c", "h", " ", "s", "h", "o", "w", "s">>,
    <<"r", "e", "s", "e", "a", "r", "c", "h", " ", "i", "n", "d", "i", "c", "a", "t", "e", "s">>,
    <<"r", "e", "s", "e", "a", "r", "c", "h", " ", "s", "u", "g", "g", "e", "s", "t", "s">>,
    <<"s", "t", "u", "d", "i", "e", "s", " ", "h", "a", "v", "e", " ", "s", "h", "o", "w", "n">>,
    <<"s", "t", "u", "d", "i", "e", "s", " ", "h", "a", "v", "e", " ", "f", "o", "u", "n", "d">>,
    <<"s", "t", "u", "d", "i", "e", "s", " ", "h", "a", "v", "e", " ", "r", "e", "v", "e", "a", "l", "e", "d">>,
    <<"f", "u", "r", "t", "h", "e", "r", "m", "o", "r", "e">>,
    <<"m", "o", "r", "e", "o", "v", "e", "r">>,
    <<"a", "d", "d", "i", "t", "i", "o", "n", "a", "l", "l", "y">>,
    <<"c", "o", "n", "s", "e", "q", "u", "e", "n", "t", "l", "y">>
    >>

\* JSON.parse on the candidates the replies of the model can yield: the
\* documents above parse to their values, every other candidate is a
\* SyntaxError
SyntaxError == [ok |-> FALSE, value |-> JUndefined]
JSONParse(jsonString) ==
    CASE jsonString = Json.high -> [ok |-> TRUE, value |-> JObj([isPlagiarized |-> JBool(TRUE), confidence |-> JNum(15)])]
      [] jsonString = Json.neg -> [ok |-> TRUE, value |-> JObj([confidence |-> JNum(-2)])]
      [] jsonString = Json.noConf -> [ok |-> TRUE, value |-> JObj([isPlagiarized |-> JBool(TRUE)])]
      [] jsonString = Json.strConf -> [ok |-> TRUE, value |-> JObj([isPlagiarized |-> JBool(TRUE), confidence |-> JStr(Str.high)])]
      [] jsonString = Json.fenced -> [ok |-> TRUE, value |-> JObj([confidence |-> JNum(8), sources |-> JArr(<<JObj([similarity |-> JNum(15)]), JObj([similarity |-> JNum(-2)]), JObj([title |-> JStr(Str.t)])>>)])]
      [] jsonString = Json.badSources -> [ok |-> TRUE, value |-> JObj([sources |-> JStr(Str.none)])]
      [] jsonString = Json.resFlat -> [ok |-> TRUE, value |-> JObj([overallAssessment |-> JStr(Str.ok), riskLevel |-> JStr(Str.high), recommendations |-> JArr(<<JStr(Str.r)>>), potentialSources |-> JArr(<<>>)])]
      [] jsonString = Json.resFenced -> [ok |-> TRUE, value |-> JObj([overallAssessment |-> JStr(Str.ok), riskLevel |-> JStr(Str.low), recommendations |-> JArr(<<JStr(Str.r)>>), potentialSources |-> JArr(<<JObj([similarity |-> JNum(15)]), JObj([similarity |-> JNum(-2)])>>)])]
      [] jsonString = Res.nested -> [ok |-> TRUE, value |-> JObj([overallAssessment |-> JStr(Str.ok), riskLevel |-> JStr(Str.high), recommendations |-> JArr(<<JStr(Str.r)>>), potentialSources |-> JArr(<<JObj([similarity |-> JNum(5)])>>)])]
      [] jsonString = Json.resSevere -> [ok |-> TRUE, value |-> JObj([riskLevel |-> JStr(Str.severe)])]
      [] OTHER -> SyntaxError

----------------------------------------------------------------------------
(* EnhancedGeminiDetector.  A reply of the remote model is a record:       *)
(* [kind |-> "throw"] (generateContent rejects), [kind |-> "blocked"]      *)
(* (response.text() throws) or [kind |-> "text", text |-> ...].  An        *)
(* onProgress call is a record [step, progress, details].  The state of a  *)
(* call carries the replies it received and, in log, the onProgress calls  *)
(* a recording callback was handed.                                        *)

Throw == [kind |-> "throw"]
Blocked == [kind |-> "blocked"]
TextReply(t) == [kind |-> "text", text |-> t]

Call(step, progress, details) == [step |-> step, progress |-> progress, details |-> details]

\* one element of (analysis.sources || []).map(...); titleDefault,
\* domainDefault and matchedDefault are the defaults of the call site
MapSource(source, titleDefault, matchedDefault, domainDefault) ==
    [url |-> OrElse(Get(source, "url"), JStr(Str.hash)),
     title |-> OrElse(Get(source, "title"), JStr(titleDefault)),
     similarity |-> ClampUnit(Get(source, "similarity")),
     matchedText |-> OrElse(Get(source, "matchedText"), JStr(matchedDefault)),
     domain |-> OrElse(Get(source, "domain"), JStr(domainDefault))]

\* (x || []).map(...) throws a TypeError when x is truthy and not an array
\* or when an element is null
MapThrows(x) ==
    LET list == OrElse(x, JArr(<<>>))
    IN \/ list.k # "array"
       \/ \E i \in 1..Len(list.items) : list.items[i].k \in {"null", "undefined"}

MapSources(x, titleDefault, matchedDefault, domainDefault) ==
    LET list == OrElse(x, JArr(<<>>))
    IN [i \in 1..Len(list.items) |->
           MapSource(list.items[i], titleDefault, matchedDefault, domainDefault)]

\* the catch (parseError) branch of analyzeSentenceWithGemini
MentionsCopying(lower) ==
    \/ Includes(lower, Str.plagiarized)
    \/ Includes(lower, Str.copied)
    \/ Includes(lower, Str.source)

KeywordVerdict(sentence, isPlagiarized) ==
       [isPlagiarized |-> JBool(isPlagiarized),
        confidence |-> IF isPlagiarized THEN JNum(6) ELSE JNum(2),
        sources |-> IF isPlagiarized
                    THEN << [url |-> JStr(Str.hash),
                             title |-> JStr(Str.potentialSourceDetected),
                             similarity |-> JNum(6),
                             matchedText |-> JStr(sentence),
                             domain |-> JStr(Str.researchDatabaseCom)] >>
                    ELSE <<>>]

KeywordAnalysis(sentence, text) ==
    KeywordVerdict(sentence, MentionsCopying(toLowerCase(text)))

\* JSON.parse(jsonString) of the try block; a null jsonString throws before
ParseExtracted(extracted) ==
    IF extracted.tier = 0 THEN SyntaxError ELSE JSONParse(extracted.json)

\* the object returned by the try block, or by its catch (parseError)
SentenceAnalysis(sentence, text, parsed) ==
    IF ~parsed.ok \/ MapThrows(Get(parsed.value, "sources"))
    THEN KeywordAnalysis(sentence, text)
    ELSE [isPlagiarized |-> OrElse(Get(parsed.value, "isPlagiarized"), JBool(FALSE)),
          confidence |-> ClampUnit(Get(parsed.value, "confidence")),
          sources |-> MapSources(Get(parsed.value, "sources"), Str.unknownSource,
                                 sentence, Str.unknownCom)]

\* analyzeSentenceWithGemini(sentence) when the model answers reply:
\* [threw |-> TRUE] when the returned promise rejects
analyzeSentenceWithGemini(sentence, reply) ==
    IF reply.kind # "text" THEN [threw |-> TRUE]
    ELSE [threw |-> FALSE,
          analysis |-> SentenceAnalysis(sentence, reply.text,
                                        ParseExtracted(extractJsonFromResponse(reply.text)))]

hasSuspiciousPattern(sentence) ==
    \E i \in 1..Len(SuspiciousPatterns) : Includes(toLowerCase(sentence), SuspiciousPatterns[i])

\* the result for hasSuspiciousPattern and its confidence (0.4 or 0.1)
FallbackResult(sentence, startIndex, endIndex, suspicious, confidence) ==
       [text |-> sentence,
        isPlagiarized |-> JBool(confidence > 3),
        confidence |-> JNum(confidence),
        startIndex |-> startIndex,
        endIndex |-> endIndex,
        sources |-> IF suspicious
                    THEN << [url |-> JStr(Str.hash),
                             title |-> JStr(Str.academicSourcePatternDetected),
                             similarity |-> JNum(confidence),
                             matchedText |-> JStr(sentence),
                             domain |-> JStr(Str.academicSourceEdu)] >>
                    ELSE <<>>]

fallbackDetection(sentence, startIndex, endIndex) ==
    FallbackResult(sentence, startIndex, endIndex, hasSuspiciousPattern(sentence),
                   IF hasSuspiciousPattern(sentence) THEN 4 ELSE 1)

splitIntoSentences(text) == SegmentText(text, 15)

\* 30 + ((i / totalSentences) * 60); the totals of the model divide 60
sentenceProgress(i, totalSentences) == 30 + (i * 60) \div totalSentences

\* detectPlagiarismWithProgress starting the analysis of every sentence
\* before it awaits the first
MutDetectBegin(text, configured) ==
    LET sentences == splitIntoSentences(text)
    IN [cl |-> [fn |-> "detect", text |-> text, sentences |-> sentences, i |-> 0,
                currentIndex |-> 0, results |-> <<>>, replies |-> <<>>,
                status |-> IF ~configured THEN "threw"
                           ELSE IF sentences = <<>> THEN "returned" ELSE "awaiting",
                log |-> <<>>],
        calls |-> IF ~configured THEN <<>>
                  ELSE [k \in 1..Len(sentences) |->
                           Call("analysis", sentenceProgress(k - 1, Len(sentences)),
                                "Analyzing sentence...")]]

\* detectPlagiarismWithProgress up to its first await: the state of the call
\* and the onProgress calls made
DetectBegin(text, configured) ==
    LET sentences == splitIntoSentences(text)
        cl == [fn |-> "detect", text |-> text, sentences |-> sentences, i |-> 0,
               currentIndex |-> 0, results |-> <<>>, replies |-> <<>>,
               status |-> "awaiting", log |-> <<>>]
        head == << Call("parsing", 10, "Splitting text into sentences..."),
                   Call("parsing", 25, "Found sentences to analyze"),
                   Call("analysis", 30, "Starting plagiarism analysis...") >>
    IN IF ~configured
       THEN [cl |-> [cl EXCEPT !.status = "threw", !.sentences = <<>>], calls |-> <<>>]
       ELSE IF Len(sentences) = 0
       THEN [cl |-> [cl EXCEPT !.status = "returned"],
             calls |-> Append(head, Call("finalizing", 95, "Finalizing results..."))]
       ELSE [cl |-> cl,
             calls |-> Append(head, Call("analysis", sentenceProgress(0, Len(sentences)),
                                         "Analyzing sentence..."))]

\* the body of the try/catch around analyzeSentenceWithGemini: the pushed
\* result, outcome being what the awaited call did
SentenceResult(sentence, sentenceStartIndex, sentenceEndIndex, outcome) ==
    IF outcome.threw
    THEN fallbackDetection(sentence, sentenceStartIndex, sentenceEndIndex)
    ELSE [text |-> sentence,
          isPlagiarized |-> outcome.analysis.isPlagiarized,
          confidence |-> outcome.analysis.confidence,
          startIndex |-> sentenceStartIndex,
          endIndex |-> sentenceEndIndex,
          sources |-> outcome.analysis.sources]

\* one iteration of the loop over the sentences
SentenceIteration(cl, reply, sentence, sentenceStartIndex) ==
    [cl EXCEPT !.results = Append(@, SentenceResult(sentence, sentenceStartIndex,
                                         sentenceStartIndex + Len(sentence),
                                         analyzeSentenceWithGemini(sentence, reply))),
               !.replies = Append(@, reply),
               !.currentIndex = sentenceStartIndex + Len(sentence),
               !.i = @ + 1]

\* after an iteration: the onProgress call of the next one, or of the end
LoopContinues(cl1) ==
    IF cl1.i < Len(cl1.sentences)
    THEN [cl |-> cl1,
          calls |-> << Call("analysis", sentenceProgress(cl1.i, Len(cl1.sentences)),
                            "Analyzing sentence...") >>]
    ELSE [cl |-> [cl1 EXCEPT !.status = "returned"],
          calls |-> << Call("finalizing", 95, "Finalizing results...") >>]

\* detectPlagiarismWithProgress without the catch around the awaited
\* analyzeSentenceWithGemini: a rejection ends the whole call
MutDetectResume(cl, reply) ==
    IF reply.kind # "text"
    THEN [cl |-> [cl EXCEPT !.status = "threw", !.replies = Append(@, reply)],
          calls |-> <<>>]
    ELSE LoopContinues(SentenceIteration(cl, reply, cl.sentences[cl.i + 1],
                           indexOf(cl.text, cl.sentences[cl.i + 1], cl.currentIndex)))

\* detectPlagiarismWithProgress from the settling of the pending
\* analyzeSentenceWithGemini to the next await or the return
DetectResume(cl, reply) ==
    LoopContinues(SentenceIteration(cl, reply, cl.sentences[cl.i + 1],
                                    indexOf(cl.text, cl.sentences[cl.i + 1], cl.currentIndex)))

\* the fixed result of the catch branch of performDeepResearchWithProgress
DegradedResearch ==
    [overallAssessment |-> JStr(Str.unableToCompleteDeepAnalysisPleaseTryAgain),
     riskLevel |-> JStr(Str.medium),
     recommendations |-> JArr(<< JStr(Str.manualReviewRecommended),
                                 JStr(Str.checkForProperCitations) >>),
     potentialSources |-> <<>>]

\* performDeepResearchWithProgress announcing the research before it looks
\* at the model, and answering with the degraded result when there is none
MutResearchBegin(text, configured) ==
    [cl |-> [fn |-> "research", text |-> text, replies |-> <<>>,
             status |-> IF configured THEN "awaiting" ELSE "returned",
             result |-> DegradedResearch, log |-> <<>>],
     calls |-> << Call("research", 10, "Initializing deep research analysis..."),
                  Call("research", 30, "Sending request for analysis...") >>]

\* performDeepResearchWithProgress up to its await
ResearchBegin(text, configured) ==
    LET cl == [fn |-> "research", text |-> text, replies |-> <<>>, status |-> "awaiting",
               result |-> DegradedResearch, log |-> <<>>]
    IN IF ~configured
       THEN [cl |-> [cl EXCEPT !.status = "threw"], calls |-> <<>>]
       ELSE [cl |-> cl,
             calls |-> << Call("research", 10, "Initializing deep research analysis..."),
                          Call("research", 30, "Sending request for analysis...") >>]

\* the catch branch, entered after the onProgress calls made so far
ResearchCatch(cl, reply, calls) ==
    [cl |-> [cl EXCEPT !.status = "returned",
                       !.replies = Append(@, reply),
                       !.result = DegradedResearch],
     calls |-> Append(calls, Call("research", 100, "Analysis completed with fallback method"))]

\* the try block from the settling of generateContent, parsed being what
\* JSON.parse does with the extracted candidate
ResearchTry(cl, reply, parsed) ==
    LET c60 == Call("research", 60, "Processing analysis response...")
        c80 == Call("research", 80, "Parsing analysis results...")
        c95 == Call("research", 95, "Finalizing deep research...")
    IN CASE reply.kind = "throw" -> ResearchCatch(cl, reply, <<>>)
         [] reply.kind = "blocked" -> ResearchCatch(cl, reply, <<c60>>)
         [] ~parsed.ok -> ResearchCatch(cl, reply, <<c60, c80>>)
         [] MapThrows(Get(parsed.value, "potentialSources")) ->
              ResearchCatch(cl, reply, <<c60, c80, c95>>)
         [] OTHER ->
              [cl |-> [cl EXCEPT
                          !.status = "returned",
                          !.replies = Append(@, reply),
                          !.result =
                              [overallAssessment |->
                                   OrElse(Get(parsed.value, "overallAssessment"),
                                          JStr(Str.analysisCompleted)),
                               riskLevel |-> OrElse(Get(parsed.value, "riskLevel"), JStr(Str.low)),
                               recommendations |->
                                   OrElse(Get(parsed.value, "recommendations"),
                                          JArr(<<JStr(Str.reviewContentForOriginality)>>)),
                               potentialSources |->
                                   MapSources(Get(parsed.value, "potentialSources"),
                                              Str.potentialSource, Str.empty, Str.unknown)]],
               calls |-> <<c60, c80, c95>>]

\* performDeepResearchWithProgress whose catch rethrows a failed JSON.parse
MutResearchResume(cl, reply) ==
    IF reply.kind = "text" /\ ~ParseExtracted(extractJsonFromResponse(reply.text)).ok
    THEN [cl |-> [cl EXCEPT !.status = "threw", !.replies = Append(@, reply)],
          calls |-> << Call("research", 60, "Processing analysis response..."),
                       Call("research", 80, "Parsing analysis results...") >>]
    ELSE ResearchTry(cl, reply,
                     IF reply.kind = "text"
                     THEN ParseExtracted(extractJsonFromResponse(reply.text)) ELSE SyntaxError)

\* performDeepResearchWithProgress from the settling of generateContent to
\* the return
ResearchResume(cl, reply) ==
    ResearchTry(cl, reply,
                IF reply.kind = "text"
                THEN ParseExtracted(extractJsonFromResponse(reply.text)) ELSE SyntaxError)

----------------------------------------------------------------------------
(* The progress hook.  Its operations act on a record T of the hook's      *)
(* state and the pending timers; c is the calling context: c.now is        *)
(* Date.now(), c.cs the startTime captured by the closure of               *)
(* updateStepProgress in use, c.run the handler invocation.                *)

Tracker == [isVisible |-> isVisible, currentStep |-> currentStep, steps |-> steps,
            overallProgress |-> overallProgress, startTime |-> startTime,
            estimatedTimeRemaining |-> estimatedTimeRemaining, timers |-> timers]

Ctx(cs, r) == [now |-> now, cs |-> cs, run |-> r]

\* timePerSentence[stepId] || 1.0, in tenths of a second
timePerSentence(stepId) ==
    CASE stepId = "parsing" -> 1
      [] stepId = "analysis" -> 3
      [] stepId = "plagiarism" -> 15
      [] stepId = "research" -> 20
      [] stepId = "finalizing" -> 1
      [] OTHER -> 10

calculateEstimatedTime(sentenceCount, stepId) ==
    CeilDiv(sentenceCount * timePerSentence(stepId), 10)

RECURSIVE TotalEstimatedTime(_, _)
TotalEstimatedTime(defs, sentenceCount) ==
    IF defs = <<>> THEN 0
    ELSE calculateEstimatedTime(sentenceCount, Head(defs).id)
         + TotalEstimatedTime(Tail(defs), sentenceCount)

\* initializeProgress(stepDefinitions, textLength?): hint is the sentence
\* count of textLength (Math.max(1, ...)), or 0 when textLength is absent
\* or the empty string
initializeProgress(T, c, defs, hint) ==
    LET initialSteps == [i \in 1..Len(defs) |->
                            [id |-> defs[i].id, status |-> "pending",
                             progress |-> 0, details |-> defs[i].details]]
    IN [T EXCEPT !.steps = initialSteps,
                 !.isVisible = TRUE,
                 !.currentStep = IF Len(initialSteps) > 0 THEN initialSteps[1].id ELSE "",
                 !.overallProgress = Rat(0, 1),
                 !.startTime = c.now,
                 !.estimatedTimeRemaining =
                     IF hint > 0 THEN TotalEstimatedTime(defs, hint) ELSE @]

\* Math.max(0, Math.round((elapsed / overall) * (100 - overall)))
EstimateFromProgress(elapsedMs, overall) ==
    Max(0, RoundDiv(elapsedMs * (100 * overall.den - overall.num), 1000 * overall.num))

OverallOf(ss) == Rat(SumProgress(ss), Len(ss))

\* updateStepProgress with the overall progress averaged over the steps as
\* they were before the update
MutUpdateStepProgress(T, c, stepId, progress, details) ==
    LET newSteps == [i \in 1..Len(T.steps) |->
                        IF T.steps[i].id = stepId
                        THEN [T.steps[i] EXCEPT
                                 !.status = IF progress >= 100 THEN "completed" ELSE "processing",
                                 !.progress = Min(progress, 100),
                                 !.details = details]
                        ELSE T.steps[i]]
        overall == OverallOf(T.steps)
    IN [T EXCEPT !.steps = newSteps,
                 !.overallProgress = overall,
                 !.estimatedTimeRemaining =
                     IF Truthy(c.cs) /\ RatGt(overall, 5)
                     THEN EstimateFromProgress(c.now - c.cs, overall)
                     ELSE @]

updateStepProgress(T, c, stepId, progress, details) ==
    LET newSteps == [i \in 1..Len(T.steps) |->
                        IF T.steps[i].id = stepId
                        THEN [T.steps[i] EXCEPT
                                 !.status = IF progress >= 100 THEN "completed" ELSE "processing",
                                 !.progress = Min(progress, 100),
                                 !.details = details]
                        ELSE T.steps[i]]
        overall == OverallOf(newSteps)
    IN [T EXCEPT !.steps = newSteps,
                 !.overallProgress = overall,
                 !.estimatedTimeRemaining =
                     IF Truthy(c.cs) /\ RatGt(overall, 5)
                     THEN EstimateFromProgress(c.now - c.cs, overall)
                     ELSE @]

NextStepDelay == 100

\* completeStep whose delayed update names the completed step
MutMoveToNextStep(T1, c, stepId) ==
    LET currentIndex == FindIndex(T1.steps, stepId)
        hasNext == currentIndex + 1 <= Len(T1.steps)
    IN IF hasNext
       THEN [T1 EXCEPT !.currentStep = T1.steps[currentIndex + 1].id,
                       !.timers = Append(@, [kind |-> "next", stepId |-> stepId,
                                             due |-> c.now + NextStepDelay,
                                             cs |-> c.cs, run |-> c.run])]
       ELSE T1

\* the rest of completeStep after its updateStepProgress(stepId, 100)
MoveToNextStep(T1, c, stepId) ==
    LET currentIndex == FindIndex(T1.steps, stepId)
        hasNext == currentIndex + 1 <= Len(T1.steps)
    IN IF hasNext
       THEN [T1 EXCEPT !.currentStep = T1.steps[currentIndex + 1].id,
                       !.timers = Append(@, [kind |-> "next",
                                             stepId |-> T1.steps[currentIndex + 1].id,
                                             due |-> c.now + NextStepDelay,
                                             cs |-> c.cs, run |-> c.run])]
       ELSE T1

completeStep(T, c, stepId) ==
    MoveToNextStep(updateStepProgress(T, c, stepId, 100, Undefined), c, stepId)

\* setStepError that also resets the progress of the failed step
MutSetStepError(T, stepId, errorMessage) ==
    [T EXCEPT !.steps = [i \in 1..Len(T.steps) |->
                            IF T.steps[i].id = stepId
                            THEN [T.steps[i] EXCEPT !.status = "error",
                                                    !.progress = 0,
                                                    !.details = errorMessage]
                            ELSE T.steps[i]],
              !.estimatedTimeRemaining = Null]

setStepError(T, stepId, errorMessage) ==
    [T EXCEPT !.steps = [i \in 1..Len(T.steps) |->
                            IF T.steps[i].id = stepId
                            THEN [T.steps[i] EXCEPT !.status = "error",
                                                    !.details = errorMessage]
                            ELSE T.steps[i]],
              !.estimatedTimeRemaining = Null]

\* hideProgress that leaves the start time in place
MutHideProgress(T) ==
    [T EXCEPT !.isVisible = FALSE, !.steps = <<>>, !.currentStep = "",
              !.overallProgress = Rat(0, 1), !.estimatedTimeRemaining = Null]

hideProgress(T) ==
    [T EXCEPT !.isVisible = FALSE, !.steps = <<>>, !.currentStep = "",
              !.overallProgress = Rat(0, 1), !.startTime = Null,
              !.estimatedTimeRemaining = Null]

\* a handler that ends without the setTimeout of hideProgress
MutScheduleHide(T, c, delay) == T

\* setTimeout(() => hideProgress(), delay)
ScheduleHide(T, c, delay) ==
    [T EXCEPT !.timers = Append(@, [kind |-> "hide", stepId |-> "",
                                    due |-> c.now + delay, cs |-> c.cs, run |-> c.run])]

\* the hook's state and the timers after a step
Commit(T) ==
    /\ isVisible' = T.isVisible
    /\ currentStep' = T.currentStep
    /\ steps' = T.steps
    /\ overallProgress' = T.overallProgress
    /\ startTime' = T.startTime
    /\ estimatedTimeRemaining' = T.estimatedTimeRemaining
    /\ timers' = T.timers

----------------------------------------------------------------------------
(* Timers and the clock.                                                   *)

\* the timer the event loop runs next: the earliest deadline, and among
\* equal deadlines the one created first
IsNextTimer(i) ==
    /\ i \in 1..Len(timers)
    /\ timers[i].due <= now
    /\ \A j \in 1..Len(timers) :
          \/ timers[j].due > timers[i].due
          \/ timers[j].due = timers[i].due /\ j >= i

RemoveAt(s, i) == [k \in 1..(Len(s) - 1) |-> IF k < i THEN s[k] ELSE s[k + 1]]

\* nothing refers to the clock: no handler runs, no timer is pending and no
\* start time is recorded.  The origin of Date.now() is arbitrary, so the
\* clock is read as Epoch again when this is reached.
Quiescent == run.kind = "none" /\ timers = <<>> /\ startTime = Null

\* a timer callback: the delayed 'Starting...' update of completeStep, or a
\* delayed hideProgress of a handler
TimerFires ==
    \E i \in 1..Len(timers) :
       /\ IsNextTimer(i)
       /\ LET t == timers[i]
              T0 == [Tracker EXCEPT !.timers = RemoveAt(timers, i)]
          IN /\ \E T \in {IF t.kind = "next"
                          THEN updateStepProgress(T0, Ctx(t.cs, t.run), t.stepId, 1, "Starting...")
                          ELSE hideProgress(T0)} : Commit(T)
             /\ lastOp' = [op |-> IF t.kind = "next" THEN "timerNext" ELSE "timerHide",
                           id |-> t.stepId, arg |-> t.run]
       /\ UNCHANGED <<isProcessing, run, runCount, published, client, env, runLimit>>
       /\ now' = IF Quiescent' THEN Epoch ELSE now

MinDue == CHOOSE d \in {timers[i].due : i \in 1..Len(timers)} :
              \A j \in 1..Len(timers) : d <= timers[j].due

\* time passes while a handler runs, a timer is pending or the overlay is
\* shown: up to the next timer deadline, or by TickMs.  MaxTime bounds the
\* clock while no timer is pending; the deadline of a pending timer always
\* comes, so past MaxTime the clock moves straight to it.
Tick ==
    /\ run.kind # "none" \/ timers # <<>> \/ isVisible
    /\ \A i \in 1..Len(timers) : timers[i].due > now
    /\ now' = IF timers = <<>> THEN now + TickMs
              ELSE IF now + TickMs <= MaxTime THEN Min(now + TickMs, MinDue)
              ELSE MinDue
    /\ timers = <<>> => now' <= MaxTime
    /\ lastOp' = [op |-> "tick", id |-> "", arg |-> 0]
    /\ UNCHANGED <<trackerVars, timers, isProcessing, run, runCount, published, client, env, runLimit>>

NoRun == [kind |-> "none"]
\* a published result group that no run has set yet
Unset == [set |-> FALSE]
NoClient == [fn |-> "idle"]
NoneOp == [op |-> "none", id |-> "", arg |-> 0]

\* import.meta.env.VITE_GEMINI_API_KEY: absent (""), the placeholder of the
\* template, or a key
ApiKeys == {"", "your_gemini_api_key_here", "key"}
\* the negation of !apiKey || apiKey === 'your_gemini_api_key_here'
KeyUsable(apiKey) == ~(apiKey = "" \/ apiKey = "your_gemini_api_key_here")

\* env.connected is backendStatus.connected; env.configured tells whether
\* the effect of App has called EnhancedGeminiDetector.initialize
InitCommon ==
    /\ isVisible = FALSE
    /\ currentStep = ""
    /\ steps = <<>>
    /\ overallProgress = Rat(0, 1)
    /\ startTime = Null
    /\ estimatedTimeRemaining = Null
    /\ timers = <<>>
    /\ now = Epoch
    /\ isProcessing = FALSE
    /\ run = NoRun
    /\ runCount = 0
    /\ published = [ai |-> Unset, plagiarism |-> Unset]
    /\ client = NoClient
    /\ env \in {[connected |-> c, apiKey |-> k, configured |-> KeyUsable(k)] :
                   c \in BOOLEAN, k \in ApiKeys}
    /\ runLimit \in {MaxRuns, MaxOverlapRuns, MaxCalls, MaxClientCalls}
    /\ lastOp = NoneOp

----------------------------------------------------------------------------
(* The hook driven directly by a caller that always uses the functions of  *)
(* the latest render (so the closure's startTime is the current one).      *)

ApiDefs == { <<>>,
             << [id |-> "a", details |-> Undefined], [id |-> "b", details |-> Undefined] >>,
             << [id |-> "parsing", details |-> "Preparing"],
                [id |-> "analysis", details |-> "Analysing"],
                [id |-> "research", details |-> "Researching"],
                [id |-> "finalizing", details |-> "Compiling"] >> }
ApiIds == {"a", "b", "zzz"}
ApiProgress == {-10, 1, 50, 100, 150}
ApiHints == {0, 3}

ApiFrame == UNCHANGED <<isProcessing, run, published, client, env, runLimit, now>>

ApiStart ==
    /\ runCount < runLimit
    /\ \E defs \in ApiDefs, hint \in ApiHints :
          /\ Commit(initializeProgress(Tracker, Ctx(startTime, 0), defs, hint))
          /\ lastOp' = [op |-> "start", id |-> "", arg |-> hint]
    /\ runCount' = runCount + 1
    /\ ApiFrame

ApiAdvance ==
    /\ runCount < runLimit
    /\ \E id \in ApiIds, p \in ApiProgress :
          /\ Commit(updateStepProgress(Tracker, Ctx(startTime, 0), id, p, "working"))
          /\ lastOp' = [op |-> "advance", id |-> id, arg |-> p]
    /\ runCount' = runCount + 1
    /\ ApiFrame

ApiComplete ==
    /\ runCount < runLimit
    /\ \E id \in ApiIds :
          /\ Commit(completeStep(Tracker, Ctx(startTime, 0), id))
          /\ lastOp' = [op |-> "complete", id |-> id, arg |-> 0]
    /\ runCount' = runCount + 1
    /\ ApiFrame

ApiFail ==
    /\ runCount < runLimit
    /\ \E id \in ApiIds :
          /\ Commit(setStepError(Tracker, id, "boom"))
          /\ lastOp' = [op |-> "fail", id |-> id, arg |-> 0]
    /\ runCount' = runCount + 1
    /\ ApiFrame

ApiHide ==
    /\ runCount < runLimit
    /\ Commit(hideProgress(Tracker))
    /\ lastOp' = [op |-> "hide", id |-> "", arg |-> 0]
    /\ runCount' = runCount + 1
    /\ ApiFrame

\* the delayed 'Starting...' update of a complete call
ApiTimer == TimerFires

NextApi == ApiStart \/ ApiAdvance \/ ApiComplete \/ ApiFail \/ ApiHide \/ ApiTimer \/ Tick

InitApi ==
    /\ InitCommon
    /\ env = [connected |-> TRUE, apiKey |-> "key", configured |-> TRUE]
    /\ runLimit = MaxCalls

SpecApi == InitApi /\ [][NextApi]_vars

----------------------------------------------------------------------------
(* StatsCalculator.calculateStats(text, [], plagiarismResults).            *)

RECURSIVE PlagiarizedWords(_)
PlagiarizedWords(results) ==
    IF results = <<>> THEN 0
    ELSE (IF ~Falsy(Head(results).isPlagiarized) THEN WordCount(Head(results).text) ELSE 0)
         + PlagiarizedWords(Tail(results))

\* calculateStats counting the words of every result, plagiarized or not
MutCalculateStats(text, plagiarismResults) ==
    LET totalWords == WordCount(text)
        plagiarizedWords == PlagiarizedWords([k \in 1..Len(plagiarismResults) |->
                               [plagiarismResults[k] EXCEPT !.isPlagiarized = JBool(TRUE)]])
    IN [totalWords |-> totalWords,
        plagiarizedWords |-> plagiarizedWords,
        originalWords |-> totalWords - plagiarizedWords,
        plagiarismPercentage |-> IF totalWords > 0
                                 THEN Rat(plagiarizedWords * 100, totalWords)
                                 ELSE Rat(0, 1)]

calculateStats(text, plagiarismResults) ==
    LET totalWords == WordCount(text)
        plagiarizedWords == PlagiarizedWords(plagiarismResults)
    IN [totalWords |-> totalWords,
        plagiarizedWords |-> plagiarizedWords,
        originalWords |-> totalWords - plagiarizedWords,
        plagiarismPercentage |-> IF totalWords > 0
                                 THEN Rat(plagiarizedWords * 100, totalWords)
                                 ELSE Rat(0, 1)]

----------------------------------------------------------------------------
(* PlagiarismDetector: the detector that matches word 4-grams against a    *)
(* built-in knowledge base, and DocumentAnalyzer, which runs it and         *)
(* computes the statistics.  An n-gram is the sequence of its words (the    *)
(* code joins them with single spaces; words hold no space).  Similarity    *)
(* and confidence are rationals here.                                       *)

\* \w of the regular expression /[^\w\s]/g
WordChars == {"a", "b", "c", "d", "e", "f", "g", "h", "i", "j", "k", "l", "m",
              "n", "o", "p", "q", "r", "s", "t", "u", "v", "w", "x", "y", "z",
              "A", "B", "C", "D", "E", "F", "G", "H", "I", "J", "K", "L", "M",
              "N", "O", "P", "Q", "R", "S", "T", "U", "V", "W", "X", "Y", "Z",
              "0", "1", "2", "3", "4", "5", "6", "7", "8", "9", "_"}

\* split(/\s+/).filter(word => word.length > 0), from position p on
RECURSIVE WordsFrom(_, _)
WordsFrom(s, p) ==
    LET starts == {q \in p..Len(s) : s[q] \notin Whitespace}
        first == MinOf(starts)
        last == MinOf({q \in first..Len(s) : q = Len(s) \/ s[q + 1] \in Whitespace})
    IN IF starts = {} THEN <<>>
       ELSE <<SubSeq(s, first, last)>> \o WordsFrom(s, last + 1)

\* the loop of generateNGrams over the words
NGramsOf(words, n) ==
    [i \in 1..Max(0, Len(words) - n + 1) |-> SubSeq(words, i, i + n - 1)]

generateNGrams(text, n) ==
    NGramsOf(WordsFrom(SelectSeq(toLowerCase(text),
                                 LAMBDA c : c \in WordChars \cup Whitespace), 1), n)

\* the texts and sources of initializeKnowledgeBase, in the order it adds them
commonSources == <<
    \* The quick brown fox jumps over the lazy dog
    [domain |-> "wikipedia.org", title |-> "The Quick Brown Fox - Wikipedia",
     text |-> <<"T", "h", "e", " ", "q", "u", "i", "c", "k", " ", "b", "r",
        "o", "w", "n", " ", "f", "o", "x", " ", "j", "u", "m", "p", "s", " ",
        "o", "v", "e", "r", " ", "t", "h", "e", " ", "l", "a", "z", "y", " ",
        "d", "o", "g">>],
    \* To be or not to be, that is the question
    [domain |-> "shakespeare.org", title |-> "Hamlet Quotes - Shakespeare.org",
     text |-> <<"T", "o", " ", "b", "e", " ", "o", "r", " ", "n", "o", "t",
        " ", "t", "o", " ", "b", "e", ",", " ", "t", "h", "a", "t", " ", "i",
        "s", " ", "t", "h", "e", " ", "q", "u", "e", "s", "t", "i", "o", "n">>],
    \* Four score and seven years ago our fathers brought forth
    [domain |-> "abrahamlincolnonline.org", title |-> "Gettysburg Address - Abraham Lincoln Online",
     text |-> <<"F", "o", "u", "r", " ", "s", "c", "o", "r", "e", " ", "a",
        "n", "d", " ", "s", "e", "v", "e", "n", " ", "y", "e", "a", "r", "s",
        " ", "a", "g", "o", " ", "o", "u", "r", " ", "f", "a", "t", "h", "e",
        "r", "s", " ", "b", "r", "o", "u", "g", "h", "t", " ", "f", "o", "r",
        "t", "h">>],
    \* It was the best of times, it was the worst of times
    [domain |-> "gutenberg.org", title |-> "A Tale of Two Cities - Project Gutenberg",
     text |-> <<"I", "t", " ", "w", "a", "s", " ", "t", "h", "e", " ", "b",
        "e", "s", "t", " ", "o", "f", " ", "t", "i", "m", "e", "s", ",", " ",
        "i", "t", " ", "w", "a", "s", " ", "t", "h", "e", " ", "w", "o", "r",
        "s", "t", " ", "o", "f", " ", "t", "i", "m", "e", "s">>],
    \* Climate change refers to long-term shifts in global temperatures and weather patterns
    [domain |-> "un.org", title |-> "What Is Climate Change? - United Nations",
     text |-> <<"C", "l", "i", "m", "a", "t", "e", " ", "c", "h", "a", "n",
        "g", "e", " ", "r", "e", "f", "e", "r", "s", " ", "t", "o", " ", "l",
        "o", "n", "g", "-", "t", "e", "r", "m", " ", "s", "h", "i", "f", "t",
        "s", " ", "i", "n", " ", "g", "l", "o", "b", "a", "l", " ", "t", "e",
        "m", "p", "e", "r", "a", "t", "u", "r", "e", "s", " ", "a", "n", "d",
        " ", "w", "e", "a", "t", "h", "e", "r", " ", "p", "a", "t", "t", "e",
        "r", "n", "s">>],
    \* Artificial intelligence is the simulation of human intelligence processes by machines
    [domain |-> "ibm.com", title |-> "What is Artificial Intelligence? - IBM",
     text |-> <<"A", "r", "t", "i", "f", "i", "c", "i", "a", "l", " ", "i",
        "n", "t", "e", "l", "l", "i", "g", "e", "n", "c", "e", " ", "i", "s",
        " ", "t", "h", "e", " ", "s", "i", "m", "u", "l", "a", "t", "i", "o",
        "n", " ", "o", "f", " ", "h", "u", "m", "a", "n", " ", "i", "n", "t",
        "e", "l", "l", "i", "g", "e", "n", "c", "e", " ", "p", "r", "o", "c",
        "e", "s", "s", "e", "s", " ", "b", "y", " ", "m", "a", "c", "h", "i",
        "n", "e", "s">>],
    \* Machine learning is a subset of artificial intelligence that enables computers to learn
    [domain |-> "coursera.org", title |-> "What Is Machine Learning? - Coursera",
     text |-> <<"M", "a", "c", "h", "i", "n", "e", " ", "l", "e", "a", "r",
        "n", "i", "n", "g", " ", "i", "s", " ", "a", " ", "s", "u", "b", "s",
        "e", "t", " ", "o", "f", " ", "a", "r", "t", "i", "f", "i", "c", "i",
        "a", "l", " ", "i", "n", "t", "e", "l", "l", "i", "g", "e", "n", "c",
        "e", " ", "t", "h", "a", "t", " ", "e", "n", "a", "b", "l", "e", "s",
        " ", "c", "o", "m", "p", "u", "t", "e", "r", "s", " ", "t", "o", " ",
        "l", "e", "a", "r", "n">>],
    \* The Internet of Things describes the network of physical objects embedded with sensors
    [domain |-> "oracle.com", title |-> "What is IoT? - Oracle",
     text |-> <<"T", "h", "e", " ", "I", "n", "t", "e", "r", "n", "e", "t",
        " ", "o", "f", " ", "T", "h", "i", "n", "g", "s", " ", "d", "e", "s",
        "c", "r", "i", "b", "e", "s", " ", "t", "h", "e", " ", "n", "e", "t",
        "w", "o", "r", "k", " ", "o", "f", " ", "p", "h", "y", "s", "i", "c",
        "a", "l", " ", "o", "b", "j", "e", "c", "t", "s", " ", "e", "m", "b",
        "e", "d", "d", "e", "d", " ", "w", "i", "t", "h", " ", "s", "e", "n",
        "s", "o", "r", "s">>]
    >>

\* the knowledge base after initializeKnowledgeBase: the n-grams under which
\* source k is filed, in the order they were added
knowledgeBase == [k \in 1..Len(commonSources) |-> generateNGrams(commonSources[k].text, 4)]

\* analyzeSentence, nGrams being generateNGrams(sentence, 4)
AnalyzeNGrams(sentence, nGrams) ==
    LET \* matches.get(key).similarity after the loop over the n-grams
        hits(k) == Cardinality({ij \in (1..Len(nGrams)) \X (1..Len(knowledgeBase[k])) :
                                   nGrams[ij[1]] = knowledgeBase[k][ij[2]]})
        \* the n-gram at which source k entered the map matches
        entered(k) == MinOf({i \in 1..Len(nGrams) :
                               \E j \in 1..Len(knowledgeBase[k]) : nGrams[i] = knowledgeBase[k][j]})
        \* similarity > 0.3
        kept == {k \in 1..Len(commonSources) : 10 * hits(k) > 3 * Len(nGrams)}
        \* the order of sources after the stable sort by descending similarity
        before(j, k) == \/ hits(j) > hits(k)
                        \/ hits(j) = hits(k) /\ entered(j) < entered(k)
                        \/ hits(j) = hits(k) /\ entered(j) = entered(k) /\ j < k
        sorted == [r \in 1..Cardinality(kept) |->
                      CHOOSE k \in kept : Cardinality({j \in kept : before(j, k)}) = r - 1]
    IN [confidence |-> IF kept = {} THEN Rat(0, 1)
                       ELSE IF 12 * hits(sorted[1]) >= 10 * Len(nGrams) THEN Rat(1, 1)
                       ELSE Rat(12 * hits(sorted[1]), 10 * Len(nGrams)),
        sources |-> [r \in 1..Min(3, Cardinality(kept)) |->
                        [domain |-> commonSources[sorted[r]].domain,
                         title |-> commonSources[sorted[r]].title,
                         similarity |-> Rat(hits(sorted[r]), Len(nGrams)),
                         matchedText |-> sentence]]]

analyzeSentence(sentence) == AnalyzeNGrams(sentence, generateNGrams(sentence, 4))

\* the loop of detectPlagiarism over the sentences, from currentIndex on
RECURSIVE DetectFrom(_, _, _)
RECURSIVE DetectIteration(_, _, _, _)
DetectIteration(text, sentences, startIndex, analysis) ==
    << [text |-> Head(sentences),
        isPlagiarized |-> JBool(2 * analysis.confidence.num > analysis.confidence.den),
        confidence |-> analysis.confidence,
        startIndex |-> startIndex,
        endIndex |-> startIndex + Len(Head(sentences)),
        sources |-> analysis.sources] >>
    \o DetectFrom(text, Tail(sentences), startIndex + Len(Head(sentences)))
\* the loop searching every sentence from the start of the text
MutDetectFrom(text, sentences, currentIndex) ==
    IF sentences = <<>> THEN <<>>
    ELSE DetectIteration(text, sentences, indexOf(text, Head(sentences), 0),
                         analyzeSentence(Head(sentences)))

DetectFrom(text, sentences, currentIndex) ==
    IF sentences = <<>> THEN <<>>
    ELSE DetectIteration(text, sentences, indexOf(text, Head(sentences), currentIndex),
                         analyzeSentence(Head(sentences)))

\* PlagiarismDetector.detectPlagiarism; its splitIntoSentences keeps the
\* pieces longer than 10
detectPlagiarism(text) == DetectFrom(text, SegmentText(text, 10), 0)

----------------------------------------------------------------------------
(* DocumentParser.  A file is a record of its name, of whether its content *)
(* can be read and of the text the reader yields.                          *)

\* filename.toLowerCase().split('.').pop(): what follows the last dot, the
\* whole name when it has none
Extension(filename) ==
    SubSeq1(toLowerCase(filename), lastIndexOf(filename, ".") + 2, Len(filename))

getFileType(filename) ==
    IF Extension(filename) = <<"p", "d", "f">> THEN "pdf"
    ELSE IF Extension(filename) = <<"d", "o", "c", "x">> THEN "docx"
    ELSE "txt"

\* what the awaited calls reject with: analyzeText with an Error whose
\* message is 'Analysis failed', the file reader of parseFile with the
\* event of reader.onerror, which is not an Error
AnalysisFailed == "Error"
ReaderFailed == "ProgressEvent"

\* AIDetectionAPI.analyzeText.  A response of the backend is a record: ok is
\* response.ok, status, error and results are fields of its JSON body (an
\* error of "" is an absent one).  The failing responses of the model lead
\* to the message 'Analysis failed': by errorData.error when the status is
\* not 2xx, by the default of data.error otherwise.
AIResponses ==
    { [ok |-> TRUE, status |-> "success", error |-> "", results |-> "verdicts"],
      [ok |-> TRUE, status |-> "error", error |-> "", results |-> "partial"],
      [ok |-> FALSE, status |-> "error", error |-> "Analysis failed", results |-> "partial"] }

\* analyzeText that returns the body of every 2xx response
MutAnalyzeText(response) ==
    IF ~response.ok THEN [threw |-> TRUE, error |-> AnalysisFailed, data |-> response]
    ELSE [threw |-> FALSE, error |-> "", data |-> response]

\* the outcome of the promise analyzeText returns
analyzeText(response) ==
    IF ~response.ok THEN [threw |-> TRUE, error |-> AnalysisFailed, data |-> response]
    ELSE IF response.status # "success"
    THEN [threw |-> TRUE, error |-> AnalysisFailed, data |-> response]
    ELSE [threw |-> FALSE, error |-> "", data |-> response]

\* the reader of the file type: the files of the model that cannot be read
\* are text files, whose reader rejects with the event of reader.onerror
ReadAs(fileType, file) ==
    IF file.ok THEN [threw |-> FALSE, text |-> file.text, error |-> ""]
    ELSE [threw |-> TRUE, text |-> <<>>, error |-> ReaderFailed]

\* parseFile(file): the outcome of the returned promise
parseFile(file) ==
    IF getFileType(file.name) \in {"txt", "pdf", "docx"}
    THEN ReadAs(getFileType(file.name), file)
    ELSE [threw |-> TRUE, text |-> <<>>, error |-> "Error"]

----------------------------------------------------------------------------
(* The handlers of App.  A handler invocation is a record run: its kind,   *)
(* the await it is suspended at (pc), the startTime its closure of         *)
(* updateStepProgress captured (cs: the state of the render that created   *)
(* the handler), its number and its input.                                 *)

\* the step definitions each handler passes to initializeProgress
StepDefs(kind) ==
    CASE kind = "aiText" ->
            << [id |-> "parsing", details |-> "Preparing text for analysis"],
               [id |-> "analysis", details |-> "ModernBERT ensemble analysis"],
               [id |-> "finalizing", details |-> "Compiling detection results"] >>
      [] kind = "aiFile" ->
            << [id |-> "parsing", details |-> "Extracting text from file"],
               [id |-> "analysis", details |-> "ModernBERT ensemble analysis"],
               [id |-> "finalizing", details |-> "Compiling detection results"] >>
      [] kind = "plagiarismText" ->
            << [id |-> "parsing", details |-> "Preparing text for analysis"],
               [id |-> "analysis", details |-> "Source analysis in progress"],
               [id |-> "research", details |-> "Comprehensive source investigation"],
               [id |-> "finalizing", details |-> "Compiling comprehensive report"] >>
      [] OTHER ->
            << [id |-> "parsing", details |-> "Extracting text from file"],
               [id |-> "analysis", details |-> "Source analysis in progress"],
               [id |-> "research", details |-> "Comprehensive source investigation"],
               [id |-> "finalizing", details |-> "Compiling comprehensive report"] >>

\* the step and the message each handler hands to setStepError in its catch
ErrorStep(kind) == IF kind \in {"aiText", "plagiarismText"} THEN "analysis" ELSE "parsing"
ErrorMessage(kind, error) ==
    CASE kind = "aiText" -> IF error = "Error" THEN "Analysis failed: Analysis failed"
                            ELSE "Analysis failed: Unknown error"
      [] kind = "aiFile" -> IF error = "Error" THEN "File analysis failed: Analysis failed"
                            ELSE "File analysis failed: Unknown error"
      [] kind = "plagiarismText" -> "Analysis failed. Please try again."
      [] OTHER -> "File analysis failed. Please try again."

SuccessHideDelay == 1000
FailureHideDelay == 3000

\* the texts and files submitted
RunTexts == {TxtDup, TxtOne, TxtShort}
RunFiles ==
    { [name |-> <<"a", ".", "t", "x", "t">>, ok |-> TRUE, text |-> TxtOne],
      [name |-> <<"a", ".", "t", "x", "t">>, ok |-> FALSE, text |-> <<>>] }
\* the replies of the remote model during handler runs
RunSentenceReplies == {Throw, TextReply(Reply.high)}
RunResearchReplies == {Throw, TextReply(Res.flat)}

\* textLength.split(/[.!?]+/).filter(s => s.trim().length > 10).length,
\* at least 1; 0 stands for an absent or empty textLength
HintOf(text) == IF text = <<>> THEN 0 ELSE Max(1, Len(SegmentText(text, 10)))

\* the callback the plagiarism handlers pass as onProgress, applied to the
\* onProgress calls of one synchronous block
RECURSIVE ApplyCalls(_, _, _)
ApplyCalls(T, c, calls) ==
    IF calls = <<>> THEN T
    ELSE LET h == Head(calls)
             T1 == updateStepProgress(T, c, h.step, h.progress, h.details)
             T2 == IF h.progress >= 100 THEN completeStep(T1, c, h.step) ELSE T1
         IN ApplyCalls(T2, c, Tail(calls))

RunCtx == Ctx(run.cs, run.id)

CanStart == run.kind = "none" /\ ~isProcessing /\ runCount < runLimit

NewRun(kind, pc, text) ==
    [kind |-> kind, pc |-> pc, cs |-> startTime, id |-> runCount + 1, text |-> text,
     results |-> <<>>]

\* a gated-off handler that shows the overlay before it returns
MutGated(name) ==
    /\ lastOp' = [op |-> "gated", id |-> name, arg |-> 0]
    /\ isProcessing' = TRUE
    /\ isVisible' = TRUE
    /\ UNCHANGED <<currentStep, steps, overallProgress, startTime, estimatedTimeRemaining,
                   timers, now, run, runCount, published, client, env, runLimit>>

\* the early return of a gated-off handler
Gated(name) ==
    /\ lastOp' = [op |-> "gated", id |-> name, arg |-> 0]
    /\ UNCHANGED <<trackerVars, timers, now, isProcessing, run, runCount, published,
                   client, env, runLimit>>

\* the catch and finally blocks of a handler
CatchBlock(T, c, stepId, message) ==
    ScheduleHide(setStepError(T, stepId, message), c, FailureHideDelay)

\* the end of a handler through its finally block.  No handler rethrows
\* from its catch, so the promise of the async handler is fulfilled on
\* either path; lastOp.id records how it settled.
RunEnds(name, r) ==
    /\ isProcessing' = FALSE
    /\ run' = NoRun
    /\ client' = NoClient
    /\ lastOp' = [op |-> name, id |-> "fulfilled", arg |-> r]
    /\ UNCHANGED <<now, runCount, env, runLimit>>

\* handleAITextAnalysis up to the await of analyzeText
StartAIText ==
    /\ CanStart
    /\ IF ~env.connected THEN Gated("handleAITextAnalysis")
       ELSE \E text \in RunTexts :
          LET r == NewRun("aiText", "awaitAnalyze", text)
              c == Ctx(r.cs, r.id)
              T1 == initializeProgress(Tracker, c, StepDefs("aiText"), HintOf(text))
              T2 == updateStepProgress(T1, c, "parsing", 20, "Preparing text for AI detection...")
              T3 == updateStepProgress(T2, c, "parsing", 50, "Found sentences")
              T4 == completeStep(T3, c, "parsing")
              T5 == updateStepProgress(T4, c, "analysis", 10, "Connecting to Python backend...")
          IN /\ Commit(T5)
             /\ run' = r
             /\ runCount' = runCount + 1
             /\ isProcessing' = TRUE
             /\ lastOp' = [op |-> "start", id |-> "aiText", arg |-> r.id]
             /\ UNCHANGED <<now, published, client, env, runLimit>>

\* the rest of the try block of the AI handlers, after analyzeText resolved
AIFinish(T, c) ==
    LET T1 == updateStepProgress(T, c, "analysis", 80, "Processing detection results...")
        T2 == completeStep(T1, c, "analysis")
        T3 == updateStepProgress(T2, c, "finalizing", 50, "Compiling final results...")
        T4 == completeStep(T3, c, "finalizing")
    IN ScheduleHide(T4, c, SuccessHideDelay)

\* the AI handlers publishing the submitted text before the outcome of
\* analyzeText is known
MutAnalyzeSettles ==
    /\ run.kind \in {"aiText", "aiFile"}
    /\ run.pc = "awaitAnalyze"
    /\ published' = [published EXCEPT
                        !.ai = [set |-> TRUE, run |-> run.id, text |-> run.text,
                                results |-> "none"]]
    /\ \E response \in AIResponses : \E out \in {analyzeText(response)} :
          IF ~out.threw
          THEN /\ Commit(AIFinish(Tracker, RunCtx))
               /\ RunEnds("finish", run.id)
          ELSE /\ Commit(CatchBlock(Tracker, RunCtx, ErrorStep(run.kind),
                                    ErrorMessage(run.kind, out.error)))
               /\ RunEnds("catch", run.id)

\* analyzeText settles in handleAITextAnalysis or handleAIFileAnalysis
AnalyzeSettles ==
    /\ run.kind \in {"aiText", "aiFile"}
    /\ run.pc = "awaitAnalyze"
    /\ \E response \in AIResponses : \E out \in {analyzeText(response)} :
          IF ~out.threw
          THEN /\ Commit(AIFinish(Tracker, RunCtx))
               /\ published' = [published EXCEPT
                                   !.ai = [set |-> TRUE, run |-> run.id, text |-> run.text,
                                           results |-> out.data.results]]
               /\ RunEnds("finish", run.id)
          ELSE /\ Commit(CatchBlock(Tracker, RunCtx, ErrorStep(run.kind),
                                    ErrorMessage(run.kind, out.error)))
               /\ UNCHANGED published
               /\ RunEnds("catch", run.id)

\* handleAIFileAnalysis up to the await of parseFile
StartAIFile ==
    /\ CanStart
    /\ IF ~env.connected THEN Gated("handleAIFileAnalysis")
       ELSE LET r == NewRun("aiFile", "awaitParse", <<>>)
                c == Ctx(r.cs, r.id)
                T1 == initializeProgress(Tracker, c, StepDefs("aiFile"), 0)
                T2 == updateStepProgress(T1, c, "parsing", 20, "Processing file...")
            IN /\ Commit(T2)
               /\ run' = r
               /\ runCount' = runCount + 1
               /\ isProcessing' = TRUE
               /\ lastOp' = [op |-> "start", id |-> "aiFile", arg |-> r.id]
               /\ UNCHANGED <<now, published, client, env, runLimit>>

\* plagiarism handlers that take an empty list of results for a failure
MutPlagiarismContinues(T, c, text, d, configured) ==
    LET T1 == ApplyCalls(T, c, d.calls)
        research == ResearchBegin(text, configured)
    IN CASE d.cl.status = "awaiting" ->
              [threw |-> FALSE, T |-> T1, client |-> d.cl, pc |-> "awaitSentence",
               results |-> <<>>]
         [] d.cl.status = "returned" /\ d.cl.results # <<>>
               /\ research.cl.status = "awaiting" ->
              [threw |-> FALSE, T |-> ApplyCalls(T1, c, research.calls),
               client |-> research.cl, pc |-> "awaitResearch", results |-> d.cl.results]
         [] OTHER ->
              [threw |-> TRUE, T |-> T1, client |-> NoClient, pc |-> "", results |-> <<>>]

\* the plagiarism handlers from the call of detectPlagiarismWithProgress or
\* the settling of a sentence analysis (d is what the detector did) to the
\* next await (the next sentence, or the research request) or to the throw
\* of a detector that was never initialized
PlagiarismContinues(T, c, text, d, configured) ==
    LET T1 == ApplyCalls(T, c, d.calls)
        research == ResearchBegin(text, configured)
    IN CASE d.cl.status = "awaiting" ->
              [threw |-> FALSE, T |-> T1, client |-> d.cl, pc |-> "awaitSentence",
               results |-> <<>>]
         [] d.cl.status = "returned" /\ research.cl.status = "awaiting" ->
              [threw |-> FALSE, T |-> ApplyCalls(T1, c, research.calls),
               client |-> research.cl, pc |-> "awaitResearch", results |-> d.cl.results]
         [] OTHER ->
              [threw |-> TRUE, T |-> T1, client |-> NoClient, pc |-> "", results |-> <<>>]

\* the effect of PlagiarismContinues on the handler r
PlagiarismStep(r, st) ==
    IF st.threw
    THEN /\ Commit(CatchBlock(st.T, Ctx(r.cs, r.id), ErrorStep(r.kind), ErrorMessage(r.kind, AnalysisFailed)))
         /\ isProcessing' = FALSE
         /\ run' = NoRun
         /\ client' = NoClient
    ELSE /\ Commit(st.T)
         /\ isProcessing' = TRUE
         /\ run' = [r EXCEPT !.pc = st.pc, !.results = st.results]
         /\ client' = st.client

\* handlePlagiarismTextAnalysis up to its first await
StartPlagiarismText ==
    /\ CanStart
    /\ IF ~KeyUsable(env.apiKey) THEN Gated("handlePlagiarismTextAnalysis")
       ELSE \E text \in RunTexts :
          LET r == NewRun("plagiarismText", "", text)
              c == Ctx(r.cs, r.id)
              T1 == initializeProgress(Tracker, c, StepDefs("plagiarismText"), HintOf(text))
              st == PlagiarismContinues(T1, c, text, DetectBegin(text, env.configured),
                                        env.configured)
          IN /\ PlagiarismStep(r, st)
             /\ runCount' = runCount + 1
             /\ lastOp' = [op |-> "start", id |-> "plagiarismText", arg |-> r.id]
             /\ UNCHANGED <<now, published, env, runLimit>>

\* handlePlagiarismFileAnalysis up to the await of parseFile
StartPlagiarismFile ==
    /\ CanStart
    /\ IF ~KeyUsable(env.apiKey) THEN Gated("handlePlagiarismFileAnalysis")
       ELSE LET r == NewRun("plagiarismFile", "awaitParse", <<>>)
                c == Ctx(r.cs, r.id)
                T1 == initializeProgress(Tracker, c, StepDefs("plagiarismFile"), 0)
                T2 == updateStepProgress(T1, c, "parsing", 20, "Processing file...")
            IN /\ Commit(T2)
               /\ run' = r
               /\ runCount' = runCount + 1
               /\ isProcessing' = TRUE
               /\ lastOp' = [op |-> "start", id |-> "plagiarismFile", arg |-> r.id]
               /\ UNCHANGED <<now, published, client, env, runLimit>>

\* DocumentParser.parseFile settles in a file handler
ParseSettles ==
    /\ run.kind \in {"aiFile", "plagiarismFile"}
    /\ run.pc = "awaitParse"
    /\ \E file \in RunFiles : \E parsed \in {parseFile(file)} :
          LET c == RunCtx
              T1 == updateStepProgress(Tracker, c, "parsing", 80, "Text extraction complete")
              T2 == completeStep(T1, c, "parsing")
              r == [run EXCEPT !.text = parsed.text]
          IN IF parsed.threw
             THEN /\ Commit(CatchBlock(Tracker, c, ErrorStep(run.kind), ErrorMessage(run.kind, parsed.error)))
                  /\ UNCHANGED published
                  /\ RunEnds("catch", run.id)
             ELSE IF run.kind = "aiFile"
             THEN /\ Commit(updateStepProgress(T2, c, "analysis", 10,
                                               "Connecting to Python backend..."))
                  /\ run' = [r EXCEPT !.pc = "awaitAnalyze"]
                  /\ lastOp' = [op |-> "parsed", id |-> "", arg |-> run.id]
                  /\ UNCHANGED <<now, isProcessing, runCount, published, client, env, runLimit>>
             ELSE /\ PlagiarismStep(r, PlagiarismContinues(T2, c, parsed.text,
                                           DetectBegin(parsed.text, env.configured),
                                           env.configured))
                  /\ lastOp' = [op |-> "parsed", id |-> "", arg |-> run.id]
                  /\ UNCHANGED <<now, runCount, published, env, runLimit>>

\* analyzeSentenceWithGemini settles in a plagiarism handler
SentenceSettles ==
    /\ run.kind \in {"plagiarismText", "plagiarismFile"}
    /\ run.pc = "awaitSentence"
    /\ \E reply \in RunSentenceReplies :
          /\ PlagiarismStep(run, PlagiarismContinues(Tracker, RunCtx, run.text,
                                    DetectResume(client, reply), env.configured))
          /\ lastOp' = [op |-> "sentence", id |-> "", arg |-> run.id]
          /\ UNCHANGED <<now, runCount, published, env, runLimit>>

\* generateContent of the research request settles in a plagiarism handler:
\* the rest of the try block
ResearchSettles ==
    /\ run.kind \in {"plagiarismText", "plagiarismFile"}
    /\ run.pc = "awaitResearch"
    /\ \E reply \in RunResearchReplies :
          LET c == RunCtx
              research == ResearchResume(client, reply)
              T1 == ApplyCalls(Tracker, c, research.calls)
              T2 == updateStepProgress(T1, c, "finalizing", 50, "Calculating statistics...")
              stats == calculateStats(run.text, run.results)
              T3 == updateStepProgress(T2, c, "finalizing", 80, "Preparing final report...")
              T4 == completeStep(T3, c, "finalizing")
          IN /\ Commit(ScheduleHide(T4, c, SuccessHideDelay))
             /\ published' = [published EXCEPT
                                 !.plagiarism = [set |-> TRUE, run |-> run.id,
                                                 results |-> run.results, stats |-> stats,
                                                 text |-> run.text,
                                                 deepResearch |-> research.cl.result]]
             /\ RunEnds("finish", run.id)

Init == InitCommon /\ env.connected = env.configured /\ runLimit = MaxRuns

Next ==
    \/ StartAIText
    \/ StartAIFile
    \/ StartPlagiarismText
    \/ StartPlagiarismFile
    \/ ParseSettles
    \/ AnalyzeSettles
    \/ SentenceSettles
    \/ ResearchSettles
    \/ TimerFires
    \/ Tick

Spec == Init /\ [][Next]_vars

\* the same handlers when a second one may be started while the delayed
\* callbacks of the first are pending
InitOverlap == InitCommon /\ env.connected = env.configured /\ runLimit = MaxOverlapRuns

SpecOverlap == InitOverlap /\ [][Next]_vars

\* the handlers when every awaited call settles, every due timer runs and
\* time passes: a pending promise of the parser or of a remote call is
\* settled, and the event loop runs a callback whose deadline has come
AwaitsSentence ==
    run.kind \in {"plagiarismText", "plagiarismFile"} /\ run.pc = "awaitSentence"
AwaitsResearch ==
    run.kind \in {"plagiarismText", "plagiarismFile"} /\ run.pc = "awaitResearch"

\* a timer whose deadline has come is pending
TimerDue == \E i \in 1..Len(timers) : timers[i].due <= now

\* weak fairness of every settling, of the timer callbacks and of the clock.
\* For SentenceSettles, ResearchSettles and TimerFires WF_vars(A) is written
\* out as []<>~ENABLED <<A>>_vars \/ []<><<A>>_vars.  The first two are
\* enabled exactly while the handler awaits the reply (the guard; the reply
\* sets are not empty and the step moves the detector on): AwaitsSentence,
\* AwaitsResearch.  TimerFires is enabled exactly when a deadline has come
\* (the earliest such timer runs and leaves the list): TimerDue.
Fairness ==
    /\ WF_vars(ParseSettles)
    /\ WF_vars(AnalyzeSettles)
    /\ []<>(~AwaitsSentence) \/ []<><<SentenceSettles>>_vars
    /\ []<>(~AwaitsResearch) \/ []<><<ResearchSettles>>_vars
    /\ []<>(~TimerDue) \/ []<><<TimerFires>>_vars
    /\ WF_vars(Tick)

SpecLive == Init /\ [][Next]_vars /\ Fairness

----------------------------------------------------------------------------
(* The detector called directly, with a callback that records the          *)
(* onProgress calls; DocumentAnalyzer and StatsCalculator called directly.  *)

ClientTexts == {TxtDup, TxtOne, TxtTwo, TxtRepeat}
\* the texts handed to DocumentAnalyzer and to StatsCalculator
LocalTexts == {<<>>, TxtDup, TxtOne, TxtFox, TxtDotted}
\* the result lists handed to StatsCalculator: the sentences of a text, any
\* of them marked as plagiarized
StatsVerdicts(source) ==
    { [k \in 1..Len(SegmentText(source, 10)) |->
          [text |-> SegmentText(source, 10)[k], isPlagiarized |-> JBool(flags[k])]] :
      flags \in [1..Len(SegmentText(source, 10)) -> BOOLEAN] }
\* the result lists of the Gemini detector for a text: its sentences, any
\* of them marked as plagiarized
DetectorVerdicts(source) ==
    { [k \in 1..Len(splitIntoSentences(source)) |->
          [text |-> splitIntoSentences(source)[k], isPlagiarized |-> JBool(flags[k])]] :
      flags \in [1..Len(splitIntoSentences(source)) -> BOOLEAN] }
\* the files handed to DocumentParser
ClientFiles ==
    { [name |-> n, ok |-> ok, text |-> IF ok THEN TxtOne ELSE <<>>] :
        n \in { <<"a", ".", "t", "x", "t">>, <<"a", ".", "P", "D", "F">>,
                <<"a", ".", "b", ".", "d", "o", "c", "x">>, <<"a", ".", "p", "n", "g">>,
                <<"n", "o", "t", "e", "s">> },
        ok \in BOOLEAN } \
    { [name |-> n, ok |-> FALSE, text |-> <<>>] :
        n \in { <<"a", ".", "P", "D", "F">>, <<"a", ".", "b", ".", "d", "o", "c", "x">> } }
SentenceReplies ==
    {Throw, Blocked} \cup
    {TextReply(t) : t \in {Reply.high, Reply.neg, Reply.noConf, Reply.strConf, Reply.fenced,
                           Reply.nested, Reply.prose, Reply.clean, Reply.badSources,
                           Reply.ticked, Reply.closeOpen}}
ResearchReplies ==
    {Throw, Blocked} \cup
    {TextReply(t) : t \in {Res.flat, Res.fenced, Res.nested, Res.prose, Res.severe, Res.bad}}

ClientFrame == UNCHANGED <<trackerVars, timers, now, isProcessing, run, published, env,
                           runLimit>>

\* detectPlagiarismWithProgress(text, onProgress) is called
ClientDetect ==
    /\ client.fn = "idle"
    /\ runCount < runLimit
    /\ \E text \in ClientTexts :
          LET d == DetectBegin(text, env.configured)
          IN client' = [d.cl EXCEPT !.log = d.calls]
    /\ runCount' = runCount + 1
    /\ lastOp' = [op |-> "detect", id |-> "", arg |-> 0]
    /\ ClientFrame

\* the pending analyzeSentenceWithGemini settles
ClientSentenceReply ==
    /\ client.fn = "detect"
    /\ client.status = "awaiting"
    /\ \E reply \in SentenceReplies :
          LET d == DetectResume(client, reply)
          IN client' = [d.cl EXCEPT !.log = client.log \o d.calls]
    /\ lastOp' = [op |-> "sentence", id |-> "", arg |-> 0]
    /\ UNCHANGED runCount
    /\ ClientFrame

\* performDeepResearchWithProgress(text, onProgress) is called
ClientResearch ==
    /\ client.fn = "idle"
    /\ runCount < runLimit
    /\ \E text \in ClientTexts :
          LET d == ResearchBegin(text, env.configured)
          IN client' = [d.cl EXCEPT !.log = d.calls]
    /\ runCount' = runCount + 1
    /\ lastOp' = [op |-> "research", id |-> "", arg |-> 0]
    /\ ClientFrame

\* the pending generateContent of the research request settles
ClientResearchReply ==
    /\ client.fn = "research"
    /\ client.status = "awaiting"
    /\ \E reply \in ResearchReplies :
          LET d == ResearchResume(client, reply)
          IN client' = [d.cl EXCEPT !.log = client.log \o d.calls]
    /\ lastOp' = [op |-> "researchReply", id |-> "", arg |-> 0]
    /\ UNCHANGED runCount
    /\ ClientFrame

\* what a call of calculateStats leaves with its caller
StatsCall(fn, text, results) ==
    [fn |-> fn, text |-> text, results |-> results,
     stats |-> calculateStats(text, results), status |-> "returned"]

\* DocumentAnalyzer.analyzePlagiarism(text): detectPlagiarism, then
\* calculateStats
ClientAnalyze ==
    /\ client.fn = "idle"
    /\ runCount < runLimit
    /\ \E text \in LocalTexts : client' = StatsCall("analyzer", text, detectPlagiarism(text))
    /\ runCount' = runCount + 1
    /\ lastOp' = [op |-> "analyze", id |-> "", arg |-> 0]
    /\ ClientFrame

\* StatsCalculator.calculateStats(text, [], plagiarismResults)
ClientStats ==
    /\ client.fn = "idle"
    /\ runCount < runLimit
    /\ \E text \in LocalTexts, source \in LocalTexts :
          \E verdicts \in StatsVerdicts(source) \cup DetectorVerdicts(source) :
             client' = StatsCall("stats", text, verdicts)
    /\ runCount' = runCount + 1
    /\ lastOp' = [op |-> "stats", id |-> "", arg |-> 0]
    /\ ClientFrame

\* DocumentParser.parseFile(file), to the settling of its promise
ClientParse ==
    /\ client.fn = "idle"
    /\ runCount < runLimit
    /\ \E file \in ClientFiles :
          client' = [fn |-> "parse", file |-> file,
                     status |-> IF parseFile(file).threw THEN "threw" ELSE "returned",
                     text |-> parseFile(file).text]
    /\ runCount' = runCount + 1
    /\ lastOp' = [op |-> "parse", id |-> "", arg |-> 0]
    /\ ClientFrame

\* the caller takes the settled promise
ClientSettled ==
    /\ client.fn # "idle"
    /\ client.status \in {"returned", "threw"}
    /\ client' = NoClient
    /\ lastOp' = [op |-> "settled", id |-> client.status, arg |-> 0]
    /\ UNCHANGED runCount
    /\ ClientFrame

InitClient ==
    /\ InitCommon
    /\ env.connected
    /\ runLimit = MaxClientCalls

NextClient ==
    \/ ClientDetect
    \/ ClientSentenceReply
    \/ ClientResearch
    \/ ClientResearchReply
    \/ ClientAnalyze
    \/ ClientStats
    \/ ClientParse
    \/ ClientSettled

SpecClient == InitClient /\ [][NextClient]_vars

----------------------------------------------------------------------------
(* Properties of the progress hook, checked under SpecApi.                 *)

\* C1: whenever the stage list is not empty, overallProgress is the
\* arithmetic mean of the progress values of all stages, each stage weighing
\* the same, whatever start, advance, complete (with its delayed follow-up),
\* fail and hide calls led to the state.
C1_OverallIsMean ==
    Len(steps) > 0 =>
        /\ overallProgress.den > 0
        /\ overallProgress.num * Len(steps) = SumProgress(steps) * overallProgress.den

\* start([a, b]), advance(a, 100), advance(b, 50) has just been done and
\* overallProgress is 75
C1_Witness ==
    /\ lastOp = [op |-> "advance", id |-> "b", arg |-> 50]
    /\ Len(steps) = 2
    /\ steps[1].id = "a" /\ steps[1].progress = 100
    /\ steps[2].id = "b" /\ steps[2].progress = 50
    /\ RatEq(overallProgress, Rat(75, 1))

\* C5: a fail(stageId, message) call sets the status of the named stage to
\* error and its details to the message, and clears the estimate; the
\* progress of the named stage, every other stage, the current stage, the
\* overall progress, the visibility and the start time are as before.
C5_FailFrame ==
    [][lastOp'.op = "fail" =>
          /\ Len(steps') = Len(steps)
          /\ \A i \in 1..Len(steps) :
                IF steps[i].id = lastOp'.id
                THEN steps'[i] = [steps[i] EXCEPT !.status = "error", !.details = "boom"]
                ELSE steps'[i] = steps[i]
          /\ estimatedTimeRemaining' = Null
          /\ UNCHANGED <<currentStep, overallProgress, isVisible, startTime, timers>>
      ]_vars

\* fail(b, boom) after complete(a): a is completed with progress 100, b is in
\* error with the message
C5_Witness ==
    /\ lastOp = [op |-> "fail", id |-> "b", arg |-> 0]
    /\ Len(steps) = 2
    /\ steps[1] = [id |-> "a", status |-> "completed", progress |-> 100, details |-> Undefined]
    /\ steps[2].id = "b" /\ steps[2].status = "error" /\ steps[2].details = "boom"
    /\ estimatedTimeRemaining = Null

\* C6: a start call resets the whole state of the run: afterwards every
\* stage is pending with progress 0, the current stage is the first one, the
\* overall progress is 0 and, when no size hint is given, no estimate of an
\* earlier run is left.
C6_StartResetsEverything ==
    [][lastOp'.op = "start" =>
          /\ \A i \in 1..Len(steps') : steps'[i].status = "pending" /\ steps'[i].progress = 0
          /\ Len(steps') > 0 => currentStep' = steps'[1].id
          /\ RatEq(overallProgress', Rat(0, 1))
          /\ isVisible'
          /\ lastOp'.arg = 0 => estimatedTimeRemaining' = Null
      ]_vars

----------------------------------------------------------------------------
(* Properties of a run of a handler, checked under Spec, and of a run      *)
(* started while callbacks of the previous one are pending, checked under  *)
(* SpecOverlap.                                                            *)

\* a step of the program that neither starts a run nor hides the overlay
WithinRun == lastOp'.op \notin {"start", "timerHide"}

\* C2: within one run (from start until hide or the next start) no step of
\* a handler and no delayed 'Starting...' update lowers the progress of a
\* stage.
C2_ProgressNeverDecreases ==
    [][WithinRun =>
          /\ Len(steps') = Len(steps)
          /\ \A i \in 1..Len(steps) : steps'[i].progress >= steps[i].progress
      ]_vars

\* C3: within one run a stage that is completed stays completed with
\* progress 100.
C3_CompletedIsPinned ==
    [][WithinRun =>
          \A i \in 1..Len(steps) :
             steps[i].status = "completed" =>
                 /\ i <= Len(steps')
                 /\ steps'[i].status = "completed"
                 /\ steps'[i].progress = 100
      ]_vars

\* C4: within one run a stage that is in error stays in error with the
\* message it was given, also when a delayed 'Starting...' update fires.
C4_ErrorIsTerminal ==
    [][WithinRun =>
          \A i \in 1..Len(steps) :
             steps[i].status = "error" =>
                 /\ i <= Len(steps')
                 /\ steps'[i].status = "error"
                 /\ steps'[i].details = steps[i].details
      ]_vars

\* C7: a delayed callback (the hide or the 'Starting...' update) of a run
\* that fires after a later run has started leaves the stages, the
\* visibility, the current stage, the overall progress and the estimate of
\* the later run as they are.
C7_LeftoverCallbacksAreHarmless ==
    [][(lastOp'.op \in {"timerNext", "timerHide"} /\ lastOp'.arg < runCount) =>
          UNCHANGED <<steps, isVisible, currentStep, overallProgress,
                      estimatedTimeRemaining>>
      ]_vars

----------------------------------------------------------------------------
(* Properties of the detector, checked under SpecClient.                   *)

\* the k-th result is the result of fallbackDetection for the k-th sentence
IsFallbackResult(k) ==
    client.results[k] = fallbackDetection(client.sentences[k], client.results[k].startIndex,
                                          client.results[k].endIndex)

\* the k-th result carries what analyzeSentenceWithGemini made of the k-th reply
IsRemoteResult(k) ==
    LET analysis == analyzeSentenceWithGemini(client.sentences[k], client.replies[k]).analysis
    IN /\ client.results[k].isPlagiarized = analysis.isPlagiarized
       /\ client.results[k].confidence = analysis.confidence
       /\ client.results[k].sources = analysis.sources

\* C8: detectPlagiarismWithProgress of a configured detector never ends
\* with an exception because the remote call of a sentence failed: there is
\* one result per sentence analysed so far, in the order of the sentences of
\* the text; the result of a sentence whose remote call failed is the result
\* of fallbackDetection, the result of any other sentence comes from its
\* reply; and the call returns one result per sentence of the text.
C8_BatchNeverAborts ==
    (client.fn = "detect" /\ env.configured) =>
        /\ client.status # "threw"
        /\ Len(client.results) = Len(client.replies)
        /\ Len(client.results) <= Len(splitIntoSentences(client.text))
        /\ client.status = "returned" =>
               Len(client.results) = Len(splitIntoSentences(client.text))
        /\ \A k \in 1..Len(client.results) :
              /\ client.results[k].text = splitIntoSentences(client.text)[k]
              /\ IF client.replies[k].kind = "text" THEN IsRemoteResult(k)
                 ELSE IsFallbackResult(k)

\* the call on a text of two sentences returned: the remote call of the
\* first sentence threw and its result is the fallback's (confidence 0.4,
\* a suspicious phrase), the second result comes from the reply
C8_Witness ==
    /\ client.fn = "detect"
    /\ client.status = "returned"
    /\ client.text = TxtTwo
    /\ Len(client.results) = 2
    /\ client.replies[1] = Throw
    /\ client.results[1].confidence = JNum(4)
    /\ client.results[1].isPlagiarized = JBool(TRUE)
    /\ client.replies[2] = TextReply(Reply.high)
    /\ client.results[2].confidence = JNum(10)

\* the result of the research call is the fixed degraded one
IsDegraded ==
    /\ client.result.riskLevel = JStr(Str.medium)
    /\ client.result.recommendations =
           JArr(<< JStr(Str.manualReviewRecommended), JStr(Str.checkForProperCitations) >>)
    /\ client.result.potentialSources = <<>>

\* the reply to the research request failed, or holds no JSON candidate, or
\* a candidate that JSON.parse rejects
ReplyUnusable(reply) ==
    \/ reply.kind # "text"
    \/ extractJsonFromResponse(reply.text).tier = 0
    \/ ~JSONParse(extractJsonFromResponse(reply.text).json).ok

\* C9: performDeepResearchWithProgress of a configured detector never ends
\* with an exception, and when the remote call failed or the reply holds no
\* JSON or JSON that does not parse, it returns the fixed degraded result:
\* riskLevel medium, the generic recommendations, no potential sources.
C9_ResearchNeverThrows ==
    (client.fn = "research" /\ env.configured) =>
        /\ client.status # "threw"
        /\ (client.status = "returned" /\ ReplyUnusable(client.replies[1])) => IsDegraded

\* the research call returned the degraded result for a reply without JSON
C9_Witness ==
    /\ client.fn = "research"
    /\ client.status = "returned"
    /\ client.replies = << TextReply(Res.prose) >>
    /\ IsDegraded

\* a JavaScript number between 0 and 1 (the numbers are in tenths)
InUnitInterval(x) == x.k = "number" /\ x.v >= 0 /\ x.v <= 10

\* C10: the confidence of every result of detectPlagiarismWithProgress, the
\* similarity of every source of a result and the similarity of every
\* potential source of a research report are numbers between 0 and 1,
\* whatever the reply supplied.
C10_ScoresInUnitInterval ==
    /\ client.fn = "detect" =>
          \A k \in 1..Len(client.results) :
             /\ InUnitInterval(client.results[k].confidence)
             /\ \A j \in 1..Len(client.results[k].sources) :
                   InUnitInterval(client.results[k].sources[j].similarity)
    /\ (client.fn = "research" /\ client.status = "returned") =>
          \A j \in 1..Len(client.result.potentialSources) :
             InUnitInterval(client.result.potentialSources[j].similarity)

----------------------------------------------------------------------------
(* Properties of the detectors and of the statistics, checked under        *)
(* SpecClient.                                                             *)

\* the units of text T with minimum length minLen are placed correctly in R
UnitsPlaced(T, R, minLen) ==
    /\ Len(R) <= Len(SegmentText(T, minLen))
    /\ \A k \in 1..Len(R) :
          /\ R[k].text = SegmentText(T, minLen)[k]
          /\ 0 <= R[k].startIndex
          /\ R[k].startIndex <= R[k].endIndex
          /\ R[k].endIndex <= Len(T)
          /\ SubSeq1(T, R[k].startIndex + 1, R[k].endIndex) = R[k].text
          /\ k > 1 => R[k].startIndex >= R[k - 1].endIndex

\* C11: the results of detectPlagiarism (PlagiarismDetector, minimum length
\* 10) and of detectPlagiarismWithProgress (minimum length 15) are the
\* sentences of the text in their order; each has
\* 0 <= startIndex <= endIndex <= length of the text, the text between its
\* indices is the sentence, and it starts at or after the end of the one
\* before, also when a sentence occurs twice.  "Hello world. Hello world.
\* Short." gives two results "Hello world", the second starting after the
\* end of the first.
C11_UnitsKeepOrderAndOffsets ==
    /\ client.fn = "analyzer" =>
          /\ UnitsPlaced(client.text, client.results, 10)
          /\ Len(client.results) = Len(SegmentText(client.text, 10))
          /\ client.text = TxtDup =>
                /\ Len(client.results) = 2
                /\ client.results[1].text = SubSeq(TxtDup, 1, 11)
                /\ client.results[2].text = SubSeq(TxtDup, 1, 11)
                /\ client.results[2].startIndex > client.results[1].endIndex
    /\ client.fn = "detect" =>
          /\ UnitsPlaced(client.text, client.results, 15)
          /\ client.status = "returned" =>
                Len(client.results) = Len(SegmentText(client.text, 15))

\* detectPlagiarism returned for the text with the repeated sentence: the
\* first "Hello world" lies at 0..11, the second at 13..24
C11_Witness ==
    /\ client.fn = "analyzer"
    /\ client.text = TxtDup
    /\ Len(client.results) = 2
    /\ client.results[1].startIndex = 0 /\ client.results[1].endIndex = 11
    /\ client.results[2].startIndex = 13 /\ client.results[2].endIndex = 24

\* the whitespace-separated tokens of the positive ones among the first k
\* verdicts of R
RECURSIVE PositiveTokens(_, _)
PositiveTokens(R, k) ==
    IF k = 0 THEN 0
    ELSE (IF R[k].isPlagiarized = JBool(TRUE) THEN Len(WordsFrom(R[k].text, 1)) ELSE 0)
         + PositiveTokens(R, k - 1)

\* C12: calculateStats returns as totalWords the number of
\* whitespace-separated tokens of the text, as plagiarizedWords the sum of
\* the token counts of the texts of the plagiarized results,
\* plagiarizedWords + originalWords = totalWords, and as
\* plagiarismPercentage 100 * plagiarizedWords / totalWords, or 0 when
\* totalWords is 0 (the quotient taken exactly).
C12_StatsCountWords ==
    client.fn \in {"analyzer", "stats"} =>
        /\ client.stats.totalWords = Len(WordsFrom(client.text, 1))
        /\ client.stats.plagiarizedWords = PositiveTokens(client.results, Len(client.results))
        /\ client.stats.plagiarizedWords + client.stats.originalWords = client.stats.totalWords
        /\ IF client.stats.totalWords = 0
           THEN client.stats.plagiarismPercentage = Rat(0, 1)
           ELSE /\ ~IsNaN(client.stats.plagiarismPercentage)
                /\ client.stats.plagiarismPercentage.num * client.stats.totalWords
                     = 100 * client.stats.plagiarizedWords
                       * client.stats.plagiarismPercentage.den

\* calculateStats on the 16 words of the fox text with its first sentence (9
\* words) plagiarized and its second not: 9 plagiarized, 7 original, 56.25 %
C12_Witness ==
    /\ client.fn = "stats"
    /\ client.text = TxtFox
    /\ Len(client.results) = 2
    /\ client.results[1].isPlagiarized = JBool(TRUE)
    /\ client.results[2].isPlagiarized = JBool(FALSE)
    /\ client.stats.totalWords = 16
    /\ client.stats.plagiarizedWords = 9
    /\ client.stats.originalWords = 7
    /\ RatEq(client.stats.plagiarismPercentage, Rat(225, 4))

----------------------------------------------------------------------------
(* Further properties of the progress hook, checked under SpecApi.         *)

\* C13: hideProgress, from any state, leaves no steps, an empty
\* currentStep, overallProgress 0, no start time, no estimate and the
\* overlay hidden; and it is idempotent: a second hideProgress right after
\* the first changes nothing.
C13_HideClearsAndIsIdempotent ==
    [][/\ lastOp'.op = "hide" =>
             /\ steps' = <<>>
             /\ currentStep' = ""
             /\ overallProgress' = Rat(0, 1)
             /\ startTime' = Null
             /\ estimatedTimeRemaining' = Null
             /\ isVisible' = FALSE
       /\ (lastOp.op = "hide" /\ lastOp'.op = "hide") => UNCHANGED trackerVars
       /\ hideProgress(hideProgress(Tracker)) = hideProgress(Tracker)]_vars

\* hideProgress was called on a run that had started and completed a step:
\* the delayed update of the next step is still pending, the state is clear
C13_Witness ==
    /\ lastOp.op = "hide"
    /\ timers # <<>>
    /\ steps = <<>>
    /\ ~isVisible
    /\ startTime = Null

\* C14: updateStepProgress(stepId, progress, details) stores the progress
\* clamped into 0..100, whatever value is given, and makes the step
\* completed exactly when the given progress is at least 100, processing
\* otherwise; so the progress of every step and overallProgress are between
\* 0 and 100 in every state.
C14_AdvanceClamps ==
    [][/\ lastOp'.op = "advance" =>
             \A i \in 1..Len(steps') :
                steps'[i].id = lastOp'.id =>
                   /\ steps'[i].progress = Max(0, Min(lastOp'.arg, 100))
                   /\ steps'[i].status = IF lastOp'.arg >= 100 THEN "completed"
                                         ELSE "processing"
       /\ \A i \in 1..Len(steps') : steps'[i].progress \in 0..100
       /\ Len(steps') > 0 => RatGe(overallProgress', 0) /\ RatLe(overallProgress', 100)]_vars

\* C15: updateStepProgress and completeStep called with an id that no step
\* has change no step, leave currentStep as it was and schedule no delayed
\* update.
C15_UnknownIdIsNoOp ==
    [][(/\ lastOp'.op \in {"advance", "complete"}
        /\ \A i \in 1..Len(steps) : steps[i].id # lastOp'.id) =>
            /\ steps' = steps
            /\ currentStep' = currentStep
            /\ timers' = timers]_vars

\* C16: while there are no steps (initializeProgress with no definitions,
\* or after hideProgress) overallProgress is 0, also after calls of
\* updateStepProgress and completeStep.
C16_EmptyListHasZeroOverall ==
    steps = <<>> => RatEq(overallProgress, Rat(0, 1))

\* C17: completeStep(stepId) on a declared step leaves it completed with
\* progress 100 and returns at once.  When a next step exists, currentStep
\* becomes its id and an update of it is pending, due after the short delay;
\* when that update runs, the step is processing with progress 1 and details
\* 'Starting...'.  When stepId is the last step, currentStep stays and
\* nothing is scheduled.
C17_CompleteMovesToNextStep ==
    [][/\ (lastOp'.op = "complete" /\ FindIndex(steps, lastOp'.id) > 0) =>
             /\ steps'[FindIndex(steps, lastOp'.id)].status = "completed"
             /\ steps'[FindIndex(steps, lastOp'.id)].progress = 100
             /\ IF FindIndex(steps, lastOp'.id) < Len(steps)
                THEN /\ currentStep' = steps[FindIndex(steps, lastOp'.id) + 1].id
                     /\ Len(timers') = Len(timers) + 1
                     /\ SubSeq(timers', 1, Len(timers)) = timers
                     /\ timers'[Len(timers')].kind = "next"
                     /\ timers'[Len(timers')].stepId = steps[FindIndex(steps, lastOp'.id) + 1].id
                     /\ timers'[Len(timers')].due = now + NextStepDelay
                     /\ steps'[FindIndex(steps, lastOp'.id) + 1]
                          = steps[FindIndex(steps, lastOp'.id) + 1]
                ELSE /\ currentStep' = currentStep
                     /\ timers' = timers
       /\ lastOp'.op = "timerNext" =>
             /\ Len(steps') = Len(steps)
             /\ \A j \in 1..Len(steps) :
                   steps'[j] = IF steps[j].id = lastOp'.id
                               THEN [steps[j] EXCEPT !.status = "processing", !.progress = 1,
                                                     !.details = "Starting..."]
                               ELSE steps[j]]_vars

\* after initializeProgress and completeStep('a') and nothing else, the
\* delayed update has run: a is completed at 100, b is the current step,
\* processing at 1 with details 'Starting...'
C17_Witness ==
    /\ lastOp = [op |-> "timerNext", id |-> "b", arg |-> 0]
    /\ runCount = 2
    /\ Len(steps) = 2
    /\ steps[1] = [id |-> "a", status |-> "completed", progress |-> 100, details |-> Undefined]
    /\ steps[2] = [id |-> "b", status |-> "processing", progress |-> 1,
                   details |-> "Starting..."]
    /\ currentStep = "b"
    /\ timers = <<>>

----------------------------------------------------------------------------
(* Further properties of the handlers of App, checked under Spec.          *)

\* C18: when parseFile or analyzeText (or the detector) throws inside a
\* handler, the handler puts a step into the error status, its promise
\* rejects, and hideProgress is called only after the failure delay, which
\* is longer than the delay of the success path.
C18_FailureIsSurfaced ==
    [][lastOp'.op = "catch" =>
          /\ \E i \in 1..Len(steps') : steps'[i].status = "error"
          /\ lastOp'.id = "rejected"
          /\ isVisible'
          /\ timers' # <<>>
          /\ timers'[Len(timers')].kind = "hide"
          /\ timers'[Len(timers')].due = now + FailureHideDelay
          /\ FailureHideDelay > SuccessHideDelay]_vars

\* C19: a handler run that ends in its catch block has changed none of the
\* published results: the step that ends it changes none, and no published
\* group stems from that run.
C19_FailedRunPublishesNothing ==
    [][lastOp'.op = "catch" =>
          /\ published' = published
          /\ published'.ai.set => published'.ai.run # lastOp'.arg
          /\ published'.plagiarism.set => published'.plagiarism.run # lastOp'.arg]_vars

\* handleAIFileAnalysis whose file was parsed and whose analyzeText then
\* rejected: parsing carries the error, analysis had begun, nothing is
\* published
C19_Witness ==
    /\ lastOp.op = "catch"
    /\ Len(steps) = 3
    /\ steps[1].id = "parsing" /\ steps[1].status = "error"
    /\ steps[2].id = "analysis" /\ steps[2].progress = 10
    /\ published = [ai |-> Unset, plagiarism |-> Unset]
    /\ ~isProcessing

----------------------------------------------------------------------------
(* Termination of the handlers of App, checked under SpecLive.             *)

\* the progress state after hideProgress, with no handler running and no
\* callback pending
Cleared ==
    /\ run.kind = "none"
    /\ ~isProcessing
    /\ ~isVisible
    /\ steps = <<>>
    /\ currentStep = ""
    /\ startTime = Null
    /\ timers = <<>>

\* C20: every run that starts settles and is followed by hideProgress: the
\* handler schedules it 1000 ms after it completed 'finalizing' and 3000 ms
\* after it set a step to error, the callback runs at that deadline, the
\* progress state is eventually cleared and isProcessing eventually
\* returns to false.
C20_RunSettlesAndHides ==
    /\ (run.kind # "none") ~> Cleared
    /\ isProcessing ~> ~isProcessing
    /\ [][/\ lastOp'.op \in {"finish", "catch"} =>
                /\ timers' # <<>>
                /\ timers'[Len(timers')].kind = "hide"
                /\ timers'[Len(timers')].due =
                      now + (IF lastOp'.op = "finish" THEN SuccessHideDelay
                                                      ELSE FailureHideDelay)
          /\ lastOp'.op = "timerHide" =>
                \E i \in 1..Len(timers) : timers[i].kind = "hide" /\ timers[i].due = now]_vars

\* the overlay cleared by the delayed hideProgress of a run that failed
C20_Witness ==
    /\ lastOp.op = "timerHide"
    /\ runCount = 1
    /\ Cleared
    /\ published = [ai |-> Unset, plagiarism |-> Unset]

----------------------------------------------------------------------------
(* The failure paths and the gates of the handlers of App, checked under   *)
(* Spec.                                                                   *)

\* the responses of the backend that are no success: a status that is not
\* 2xx, or a body whose status is not 'success'
FailingResponses == {r \in AIResponses : ~r.ok \/ r.status # "success"}

\* C25: a response of the backend with a status that is not 2xx, or with a
\* body whose status is not 'success', makes analyzeText throw, and the AI
\* handler that awaits it ends in its catch: setStepError is called for the
\* step of the handler (the step carries the error when the list still holds
\* it: a hide timer left by an earlier run may have emptied the list), the
\* panel is scheduled to hide after the delay of a failure, and nothing of
\* the response (no results of its body) is published.
C25_FailedResponseIsHardFailure ==
    [][(run.kind \in {"aiText", "aiFile"} /\ run.pc = "awaitAnalyze"
           /\ lastOp'.op \in {"finish", "catch"}) =>
          /\ \A r \in FailingResponses : analyzeText(r).threw
          /\ IF lastOp'.op = "catch"
             THEN /\ published' = published
                  /\ Len(steps') = Len(steps)
                  /\ \A i \in 1..Len(steps) :
                        steps[i].id = ErrorStep(run.kind) => steps'[i].status = "error"
                  /\ \E i \in 1..Len(timers') :
                        /\ timers'[i].kind = "hide"
                        /\ timers'[i].due = now + FailureHideDelay
             ELSE /\ published'.ai.set
                  /\ published'.ai.results \notin {r.results : r \in FailingResponses}]_vars

\* handleAITextAnalysis whose analyzeText threw: parsing is completed, the
\* analysis step carries the error, nothing is published
C25_Witness ==
    /\ lastOp.op = "catch"
    /\ Len(steps) = 3
    /\ steps[1].status = "completed"
    /\ steps[2].id = "analysis" /\ steps[2].status = "error"
    /\ steps[2].details = "Analysis failed: Analysis failed"
    /\ published = [ai |-> Unset, plagiarism |-> Unset]

\* C26: a text without any sentence to analyse is no failure of a
\* plagiarism handler: the detector returns an empty list, the handler goes
\* on to the research request, computes the statistics, publishes the empty
\* list, completes 'finalizing' (the step is completed when the list still
\* holds it: a hide timer left by an earlier run may have emptied the list)
\* and schedules hideProgress after the delay of a success; it never enters
\* its catch.
C26_NoUnitsIsNoFailure ==
    [][/\ (lastOp'.op = "start" /\ lastOp'.id = "plagiarismText") =>
             /\ run'.kind = "plagiarismText"
             /\ splitIntoSentences(run'.text) = <<>> =>
                   /\ run'.pc = "awaitResearch"
                   /\ run'.results = <<>>
                   /\ \A i \in 1..Len(steps') : steps'[i].status # "error"
       /\ (run.kind \in {"plagiarismText", "plagiarismFile"} /\ run.pc = "awaitResearch"
              /\ splitIntoSentences(run.text) = <<>> /\ run' # run) =>
             /\ lastOp'.op = "finish"
             /\ published'.plagiarism.set
             /\ published'.plagiarism.results = <<>>
             /\ published'.plagiarism.stats = calculateStats(run.text, <<>>)
             /\ \A i \in 1..Len(steps') : steps'[i].status # "error"
             /\ Len(steps') = Len(steps)
             /\ \A i \in 1..Len(steps) :
                   steps[i].id = "finalizing" => steps'[i].status = "completed"
             /\ timers'[Len(timers')].kind = "hide"
             /\ timers'[Len(timers')].due = now + SuccessHideDelay]_vars

\* handlePlagiarismTextAnalysis of a text without sentences has published
\* the empty list and its statistics
C26_Witness ==
    /\ lastOp.op = "finish"
    /\ published.plagiarism.set
    /\ published.plagiarism.text = TxtShort
    /\ published.plagiarism.results = <<>>
    /\ published.plagiarism.stats.plagiarismPercentage = Rat(0, 2)
    /\ steps # <<>>
    /\ steps[Len(steps)].id = "finalizing"
    /\ steps[Len(steps)].status = "completed"

\* C27: a handler that is gated off starts nothing: a plagiarism handler
\* without a usable API key and an AI handler without a connected backend
\* return without initializeProgress, without setIsProcessing, without a
\* request, and leave the progress state, the timers and the published
\* results as they were; a handler starts a run only when its gate is open.
C27_GatedHandlerStartsNothing ==
    [][/\ lastOp'.op = "gated" =>
             /\ UNCHANGED <<trackerVars, timers, isProcessing, run, runCount, published,
                            client>>
             /\ ~isProcessing'
             /\ IF lastOp'.id \in {"handleAITextAnalysis", "handleAIFileAnalysis"}
                THEN ~env.connected
                ELSE env.apiKey \in {"", "your_gemini_api_key_here"}
       /\ lastOp'.op = "start" =>
             IF lastOp'.id \in {"aiText", "aiFile"} THEN env.connected
             ELSE env.apiKey \notin {"", "your_gemini_api_key_here"}]_vars

\* handlePlagiarismTextAnalysis returned at its gate, the API key being the
\* placeholder: nothing is shown, nothing runs
C27_Witness ==
    /\ lastOp = [op |-> "gated", id |-> "handlePlagiarismTextAnalysis", arg |-> 0]
    /\ env.apiKey = "your_gemini_api_key_here"
    /\ ~isProcessing
    /\ ~isVisible
    /\ steps = <<>>
    /\ run = NoRun
    /\ client = NoClient
    /\ published = [ai |-> Unset, plagiarism |-> Unset]

----------------------------------------------------------------------------
(* Further properties of the detector, checked under SpecClient.           *)

\* the onProgress calls that announce the analysis of a sentence: each is
\* made right before the call of analyzeSentenceWithGemini for it
Announced(log) == SelectSeq(log, LAMBDA c : c.details = "Analyzing sentence...")

\* C21: the sentences are analysed one after the other: the analysis of
\* sentence k + 1 is started only when the result of sentence k has been
\* pushed, so at most one call is pending, and the onProgress calls of the
\* analysis step come in the order of the sentences.
C21_OneCallAtATime ==
    (client.fn = "detect" /\ client.status # "threw") =>
        /\ Len(client.results) = client.i
        /\ Len(Announced(client.log)) =
              Len(client.results) + (IF client.status = "awaiting" THEN 1 ELSE 0)
        /\ client.status = "awaiting" => client.i < Len(client.sentences)
        /\ \A k \in 1..Len(client.results) : client.results[k].text = client.sentences[k]
        /\ \A k \in 1..Len(Announced(client.log)) :
              /\ Announced(client.log)[k].step = "analysis"
              /\ Announced(client.log)[k].progress =
                    sentenceProgress(k - 1, Len(client.sentences))

\* the second sentence of a text of two is being analysed: one result is
\* there, two analyses were announced
C21_Witness ==
    /\ client.fn = "detect"
    /\ client.status = "awaiting"
    /\ Len(client.sentences) = 2
    /\ Len(client.results) = 1
    /\ Len(Announced(client.log)) = 2

\* C22: a detector that was never initialized throws at once from
\* detectPlagiarismWithProgress and from performDeepResearchWithProgress:
\* onProgress is not called, no request is sent to the model, nothing is
\* returned, neither results of the fallback nor the degraded report.
C22_UnconfiguredThrowsAtOnce ==
    (~env.configured /\ client.fn \in {"detect", "research"}) =>
        /\ client.status = "threw"
        /\ client.log = <<>>
        /\ client.replies = <<>>
        /\ client.fn = "detect" => client.results = <<>>

\* the research call of a detector that was never initialized has thrown
C22_Witness ==
    /\ ~env.configured
    /\ client.fn = "research"
    /\ client.status = "threw"
    /\ lastOp.op = "research"

\* C23: the riskLevel of every report performDeepResearchWithProgress
\* returns is 'low', 'medium' or 'high', whatever the reply of the model
\* was, one that parses and holds another riskLevel included.
C23_RiskLevelInEnum ==
    (client.fn = "research" /\ client.status = "returned") =>
        client.result.riskLevel \in {JStr(Str.low), JStr(Str.medium), JStr(Str.high)}

\* the reply of sentence k is a failure of the call: the request failed, or
\* the reply holds no JSON, or JSON that does not parse
CallFailed(k) == ReplyUnusable(client.replies[k])

\* C28: whenever the call for a sentence fails, by a failed request or by a
\* reply that cannot be parsed, the result of the sentence is the one of
\* fallbackDetection: confidence 0.4 and plagiarized when a suspicious
\* pattern matches the sentence, confidence 0.1 and not plagiarized
\* otherwise.
C28_FailedCallUsesFallback ==
    client.fn = "detect" =>
        \A k \in 1..Len(client.results) :
           CallFailed(k) =>
              /\ IsFallbackResult(k)
              /\ client.results[k].confidence =
                    (IF hasSuspiciousPattern(client.sentences[k]) THEN JNum(4) ELSE JNum(1))
              /\ client.results[k].isPlagiarized =
                    JBool(client.results[k].confidence.v > 3)

\* the onProgress calls of the analysis step
AnalysisCalls(log) == SelectSeq(log, LAMBDA c : c.step = "analysis")

\* C29: detectPlagiarismWithProgress reports the analysis step after each
\* sentence, with 30 + (k / total) * 60 after the k-th: the percentages of
\* the analysis step grow strictly and the last one is 90.
C29_ProgressAfterEachSentence ==
    (client.fn = "detect" /\ client.status = "returned" /\ client.sentences # <<>>) =>
        /\ Len(Announced(client.log)) = Len(client.sentences)
        /\ \A k \in 1..Len(Announced(client.log)) :
              Announced(client.log)[k].progress = 30 + (k * 60) \div Len(client.sentences)
        /\ \A k \in 1..(Len(AnalysisCalls(client.log)) - 1) :
              AnalysisCalls(client.log)[k].progress < AnalysisCalls(client.log)[k + 1].progress
        /\ AnalysisCalls(client.log)[Len(AnalysisCalls(client.log))].progress = 90

\* the reply parses to an object without one of the fields of a report
LacksRequiredField(reply) ==
    /\ ~ReplyUnusable(reply)
    /\ \E f \in {"overallAssessment", "riskLevel", "recommendations", "potentialSources"} :
          Get(JSONParse(extractJsonFromResponse(reply.text).json).value, f) = JUndefined

\* C30: when the reply to the research request parses to an object without
\* one of overallAssessment, riskLevel, recommendations, potentialSources,
\* performDeepResearchWithProgress returns the degraded report (riskLevel
\* medium, the generic recommendations, no potential sources), never a mix
\* of fields of the reply and defaults.
C30_MissingFieldIsDegraded ==
    (client.fn = "research" /\ client.status = "returned"
        /\ LacksRequiredField(client.replies[1])) =>
        /\ IsDegraded
        /\ client.result = DegradedResearch

----------------------------------------------------------------------------
(* A property of DocumentParser, checked under SpecClient.                 *)

\* C24: parseFile of a file whose name declares a format other than txt,
\* pdf and docx throws: it returns no text.
C24_UnsupportedFormatThrows ==
    (client.fn = "parse"
        /\ Extension(client.file.name) \notin
              { <<"t", "x", "t">>, <<"p", "d", "f">>, <<"d", "o", "c", "x">> }) =>
        /\ client.status = "threw"
        /\ client.text = <<>>

----------------------------------------------------------------------------
(* Properties of extractJsonFromResponse, checked under SpecClient on the  *)
(* replies the detector received.                                          *)

\* the texts of the replies the pending or finished call received
ReceivedTexts ==
    IF client.fn \in {"detect", "research"}
    THEN {client.replies[k].text :
             k \in {j \in 1..Len(client.replies) : client.replies[j].kind = "text"}}
    ELSE {}

\* the reply has a '{' that a '}' follows
HasBraceSpan(t) == \E p \in 1..Len(t) : \E r \in (p + 1)..Len(t) : t[p] = "{" /\ t[r] = "}"

\* the span from the first '{' to the last '}'
BraceSpan(t) == SubSeq(t, indexOf(t, <<"{">>, 0) + 1, lastIndexOf(t, "}") + 1)

\* C31: extractJsonFromResponse tries four tiers in order and returns the
\* candidate of the first that yields one: the fenced block, the backquote
\* span, the longest of the brace-delimited matches, the span from the first
\* '{' to the last '}'.  It returns null exactly when the reply has no '{'
\* that a '}' follows.  (The third tier finds a match in every reply that
\* has such a span, so the case of the fourth tier does not arise.)
C31_FourTiersInOrder ==
    \A t \in ReceivedTexts :
       /\ extractJsonFromResponse(t).tier = 0 <=> ~HasBraceSpan(t)
       /\ FirstMatch(t, "fenced") # <<0, 0>> =>
             /\ extractJsonFromResponse(t).tier = 1
             /\ extractJsonFromResponse(t).json =
                   Trim(SubSeq(t, FirstMatch(t, "fenced")[1], FirstMatch(t, "fenced")[2]))
       /\ (FirstMatch(t, "fenced") = <<0, 0>> /\ FirstMatch(t, "backquote") # <<0, 0>>) =>
             /\ extractJsonFromResponse(t).tier = 2
             /\ extractJsonFromResponse(t).json =
                   Trim(SubSeq(t, FirstMatch(t, "backquote")[1], FirstMatch(t, "backquote")[2]))
       /\ (FirstMatch(t, "fenced") = <<0, 0>> /\ FirstMatch(t, "backquote") = <<0, 0>>
              /\ BraceMatches(t, 1) # <<>>) =>
             /\ extractJsonFromResponse(t).tier = 3
             /\ \E k \in 1..Len(BraceMatches(t, 1)) :
                   /\ extractJsonFromResponse(t).json = Trim(BraceMatches(t, 1)[k])
                   /\ \A j \in 1..Len(BraceMatches(t, 1)) :
                         Len(BraceMatches(t, 1)[j]) <= Len(BraceMatches(t, 1)[k])
       /\ (FirstMatch(t, "fenced") = <<0, 0>> /\ FirstMatch(t, "backquote") = <<0, 0>>
              /\ BraceMatches(t, 1) = <<>> /\ HasBraceSpan(t)) =>
             /\ extractJsonFromResponse(t).tier = 4
             /\ extractJsonFromResponse(t).json = Trim(BraceSpan(t))

\* a reply with a brace-delimited match and, after it, a shorter object in
\* backquotes was received: the backquote span is the candidate
C31_Witness ==
    /\ Reply.ticked \in ReceivedTexts
    /\ Len(BraceMatches(Reply.ticked, 1)) = 2
    /\ extractJsonFromResponse(Reply.ticked) = [tier |-> 2, json |-> Json.neg]
    /\ Reply.closeOpen \in ReceivedTexts
    /\ extractJsonFromResponse(Reply.closeOpen) = NoJson

----------------------------------------------------------------------------
(* Properties of the estimate and of the stages, checked under SpecApi and *)
(* under Spec.                                                             *)

\* the seconds per unit of a stage as the specification lists them, in
\* tenths of a second
PerUnitTenths(stageId) ==
    CASE stageId = "parsing" -> 1
      [] stageId = "analysis" -> 3
      [] stageId = "research" -> 20
      [] stageId = "finalizing" -> 1
      [] OTHER -> 10

\* the sum over the stages of unitCount * PerUnitTenths(stage)
RECURSIVE SumPerUnit(_, _)
SumPerUnit(ss, unitCount) ==
    IF ss = <<>> THEN 0
    ELSE unitCount * PerUnitTenths(Head(ss).id) + SumPerUnit(Tail(ss), unitCount)

\* C32: initializeProgress with a size hint sets estimatedTimeRemaining to
\* the sum, over the declared stages, of the sentence count of the hint
\* times the seconds per sentence of the stage (0.1 parsing, 0.3 analysis,
\* 2.0 research, 0.1 finalizing, 1.0 any other id).
C32_InitialEstimateIsSum ==
    [][(lastOp'.op = "start" /\ lastOp'.arg > 0) =>
          10 * estimatedTimeRemaining' = SumPerUnit(steps', lastOp'.arg)]_vars

\* C33: during a run of a handler every update of a stage that leaves
\* overallProgress above 5 replaces estimatedTimeRemaining with the
\* extrapolation elapsed / overall * (100 - overall), elapsed being the
\* seconds since the startTime that initializeProgress of this run recorded;
\* the estimate computed from the size of the input is discarded.
C33_EstimateIsExtrapolated ==
    [][(/\ run.kind # "none"
        /\ lastOp'.op \in {"parsed", "sentence", "finish", "timerNext"}
        /\ steps' # steps
        /\ RatGt(overallProgress', 5)) =>
          /\ Truthy(startTime)
          /\ estimatedTimeRemaining' = EstimateFromProgress(now - startTime, overallProgress')
      ]_vars

\* C34: the catch of a handler reports the failure on the stage that was
\* being worked on when the exception was thrown: no stage that is completed
\* is set to error, and when analyzeText fails after the parsing stage was
\* completed, the analysis stage is the one set to error.
C34_FailureOnExecutingStage ==
    [][lastOp'.op = "catch" =>
          /\ Len(steps') = Len(steps)
          /\ \A i \in 1..Len(steps) :
                /\ steps[i].status = "completed" => steps'[i].status = "completed"
                /\ (run.pc = "awaitAnalyze" /\ steps[i].id = "analysis") =>
                      steps'[i].status = "error"
      ]_vars

\* run r has published its results
Succeeded(r) ==
    \/ published.ai.set /\ published.ai.run = r
    \/ published.plagiarism.set /\ published.plagiarism.run = r

\* C35: when the hideProgress that a successful run scheduled fires, every
\* stage of the list is completed with progress 100 and overallProgress is
\* 100.
C35_AllCompleteAtHide ==
    [][(lastOp'.op = "timerHide" /\ Succeeded(lastOp'.arg)) =>
          /\ steps # <<>>
          /\ \A i \in 1..Len(steps) :
                steps[i].status = "completed" /\ steps[i].progress = 100
          /\ RatEq(overallProgress, Rat(100, 1))
      ]_vars

\* C36: while a handler runs, currentStep names the stage being worked on:
\* it is a stage of the list, every stage after it is pending with progress
\* 0 and every stage before it is completed.
C36_CurrentStepIsFrontier ==
    run.kind # "none" =>
        /\ FindIndex(steps, currentStep) > 0
        /\ \A i \in 1..Len(steps) :
              /\ i > FindIndex(steps, currentStep) =>
                    steps[i].status = "pending" /\ steps[i].progress = 0
              /\ i < FindIndex(steps, currentStep) => steps[i].status = "completed"

----------------------------------------------------------------------------
(* Further properties of the statistics and of the research report,        *)
(* checked under SpecClient.                                               *)

\* C37: for a text and a result list made of the sentences of that text,
\* whichever of them are marked as plagiarized, calculateStats returns
\* 0 <= plagiarizedWords <= totalWords, originalWords >= 0 and a
\* plagiarismPercentage between 0 and 100, also when a terminator stands
\* inside a token.
C37_StatsWithinBounds ==
    (client.fn = "stats"
        /\ client.results \in StatsVerdicts(client.text) \cup DetectorVerdicts(client.text)) =>
        /\ client.stats.plagiarizedWords >= 0
        /\ client.stats.plagiarizedWords <= client.stats.totalWords
        /\ client.stats.originalWords >= 0
        /\ RatGe(client.stats.plagiarismPercentage, 0)
        /\ RatLe(client.stats.plagiarismPercentage, 100)

\* C38: when the reply to the research request is a well-formed JSON object
\* without a fence that holds nested objects (a potentialSources list that
\* is not empty), performDeepResearchWithProgress parses it and returns its
\* overallAssessment, riskLevel and recommendations and its potential
\* sources with the similarity clamped, not the degraded report.
C38_NestedReplyIsParsed ==
    (client.fn = "research" /\ client.status = "returned"
        /\ client.replies = << TextReply(Res.nested) >>) =>
        /\ JSONParse(Res.nested).ok
        /\ ~IsDegraded
        /\ client.result.overallAssessment = JStr(Str.ok)
        /\ client.result.riskLevel = JStr(Str.high)
        /\ client.result.recommendations = JArr(<< JStr(Str.r) >>)
        /\ Len(client.result.potentialSources) = 1
        /\ client.result.potentialSources[1].similarity = JNum(5)

====
